---- MODULE Spec2Model ----
(***************************************************************************)
(* A model of the pagination / auto-scaling core of cdl_slides'            *)
(* preprocessor (src/src/cdl_slides/preprocessor.py): the line-stream      *)
(* driver of process_markdown, the code-block and table splitters, the     *)
(* enclosing-box detector and the scale decision engine.                   *)
(*                                                                         *)
(* A line of text is a record [k, n, m, c, src]:                           *)
(*   k    what the line is (which of the driver's regular expressions it   *)
(*        matches); the concrete text each kind stands for is listed at    *)
(*        RawLen,                                                          *)
(*   n, m two integer parameters (the arguments of a split directive, a    *)
(*        line number, a column index, ...),                               *)
(*   c    the cells of a table row (their lengths), or the column marks    *)
(*        of a separator row,                                              *)
(*   src  for a line of the input its position in the input (the first     *)
(*        line is 1), and 0 for a line the program generates; a numbered   *)
(*        code line carries the src of the code line it renders.           *)
(* Heights are fixed-point numbers in thousandths of a content unit.       *)
(***************************************************************************)
EXTENDS Integers, Sequences, FiniteSets, TLC

\* ------------------------------------------------------------------ lines

L(k, n, m, c) == [k |-> k, n |-> n, m |-> m, c |-> c, src |-> 0]

Gen(k, n, m) == L(k, n, m, <<>>)

None == -1

Max(a, b) == IF a >= b THEN a ELSE b

Min(a, b) == IF a <= b THEN a ELSE b

\* The copy of a line the program emits again (a title or a box line carried
\* to a continuation slide): the same text, but not the input line itself.
Copy(l) == [l EXCEPT !.src = 0]

\* line.strip() == "---"
IsSep(l) == l.k = "sep"

\* re.match(r"^(#{1,2})\s+(.+)$", line)
IsTitle(l) == l.k = "title"

\* re.match(r"^(`{3,}|~{3,})(\w*)(.*)$", line), and for the closing fence
\* line.strip().startswith(code_block_fence[0] * 3)
IsFence(l) == l.k = "fence"

\* line.strip().startswith("|") and line.strip().endswith("|")
IsTableLine(l) == l.k \in {"th", "ts", "tr"}

\* line.strip() == "</div>"
IsCloseDiv(l) == l.k = "close"

\* stripped.startswith("<div ") or stripped == "<div>": every line that
\* begins with an opening div tag, the one-line continuation indicators
\* (<div class="code-continued-indicator">continued...</div>) included
IsOpenDiv(l) == l.k \in {"box", "box1", "div", "flex", "ind"}

\* re.search(r'class="[^"]*\b\w+-box\b', stripped)
IsBoxDiv(l) == l.k \in {"box", "box1"}

\* SCALE_CLASS_PATTERN: a _class directive that holds a scale-NN token
IsScaleLine(l) == l.k = "scale" \/ (l.k = "cls" /\ l.n > 0)

\* re.search(r"<!--\s*_class:\s*([^>]*)\s*-->", ...): any _class directive
IsClassLine(l) == l.k \in {"scale", "cls"}

\* SPLIT_DIRECTIVE_PATTERN.match(line.strip())
IsSplitDirective(l) == l.k = "dir"

\* The length of the text of a line, and of what is left of it once
\* re.sub(r"<[^>]+>", "", ...) has removed the tags. The kinds stand for
\*   sep "---", title "# A", text "text", li "- item", fence "```",
\*   code "x = 1", th and tr "| " and every cell followed by " |" (a cell of
\*   length 1: "| h | h |"), ts "|" and every column mark followed by "|"
\*   ("|---|---|"),
\*   box <div class="note-box">, box1 <div class="note-box">note</div>,
\*   close </div>, div <div class="cols">,
\*   flex <div style="display: flex">, dir <!-- split: N --> or
\*   <!-- split: N, M -->, scale <!-- _class: scale-NN -->,
\*   cls <!-- _class: lead --> and, with the scale class n > 0 added to it,
\*   <!-- _class: lead  scale-NN -->, noauto <!-- no-autoscale -->, blank "",
\*   ind <div class="code-continued-indicator">continued...</div> and the
\*   five others of its kind.
RECURSIVE CellChars(_, _)
CellChars(c, j) == IF j > Len(c) THEN 0 ELSE c[j] + 3 + CellChars(c, j + 1)

MarkLen(p) == CASE p = 0 -> 3 [] p = 3 -> 5 [] OTHER -> 4

RECURSIVE MarkChars(_, _)
MarkChars(c, j) ==
    IF j > Len(c) THEN 0
    ELSE MarkLen(c[j]) + 1 + MarkChars(c, j + 1)

RawLen(l) ==
    CASE l.k = "sep" -> 3
      [] l.k = "title" -> 3
      [] l.k = "text" -> 4
      [] l.k = "li" -> 6
      [] l.k = "fence" -> 3
      [] l.k = "code" -> 5
      [] l.k \in {"th", "tr"} -> 1 + CellChars(l.c, 1)
      [] l.k = "ts" -> 1 + MarkChars(l.c, 1)
      [] l.k = "box" -> 22
      [] l.k = "box1" -> 32
      [] l.k = "ind" -> 53 + l.m + (CASE l.n = 1 -> 3 [] l.n = 2 -> 6 [] OTHER -> 8)
      [] l.k = "close" -> 6
      [] l.k = "div" -> 18
      [] l.k = "flex" -> 27
      [] l.k = "dir" -> IF l.m = None THEN 17 ELSE 20
      [] l.k = "scale" -> 25
      [] l.k = "cls" -> IF l.n = 0 THEN 21 ELSE 31
      [] l.k = "noauto" -> 21
      [] OTHER -> 0

IsTag(l) == l.k \in {"box", "close", "div", "flex", "dir", "scale", "cls", "noauto"}

VisLen(l) ==
    IF IsTag(l) THEN 0
    ELSE IF l.k = "box1" THEN 4
    ELSE IF l.k = "ind" THEN (IF l.n = 2 THEN 15 ELSE 12)
    ELSE RawLen(l)

\* ------------------------------------------------------------ table model

\* [c for c in row.split("|") if c.strip()]: the empty cells are dropped
CellLens(row) ==
    IF row.k = "ts" THEN [j \in 1..Len(row.c) |-> MarkLen(row.c[j])] ELSE row.c

Cells(row) == SelectSeq(CellLens(row), LAMBDA x : x > 0)

\* a single line taken for a table of a header and nothing else
parse_markdown_table_of_one_line(tl) ==
    IF Len(tl) < 1
    THEN [ok |-> FALSE, header |-> Gen("blank", 0, 0), separator |-> Gen("blank", 0, 0),
          data_rows |-> <<>>, column_count |-> 0]
    ELSE [ok |-> TRUE, header |-> tl[1],
          separator |-> IF Len(tl) > 1 THEN tl[2] ELSE Gen("blank", 0, 0),
          data_rows |-> SubSeq(tl, 3, Len(tl)),
          column_count |-> Len(Cells(tl[1]))]

\* parse_markdown_table: None (here: a record with ok = FALSE) below 2 lines
parse_markdown_table(tl) ==
    IF Len(tl) < 2
    THEN [ok |-> FALSE, header |-> Gen("blank", 0, 0), separator |-> Gen("blank", 0, 0),
          data_rows |-> <<>>, column_count |-> 0]
    ELSE [ok |-> TRUE, header |-> tl[1], separator |-> tl[2],
          data_rows |-> SubSeq(tl, 3, Len(tl)),
          column_count |-> Len(Cells(tl[1]))]

LONG_THRESHOLD == 25

\* detect_long_columns: the 0-based positions, among the non-empty cells of a
\* row, of the cells longer than the threshold
detect_long_columns(rows) ==
    {i \in 0..8 : \E r \in 1..Len(rows) :
        /\ i + 1 <= Len(Cells(rows[r]))
        /\ Cells(rows[r])[i + 1] > LONG_THRESHOLD}

\* Alignments: 0 center, 1 right, 2 left. A separator part is marked
\* 0 for ---, 1 for ---:, 2 for :---, 3 for :---:
AlignOfMark(p) == CASE p = 3 -> 0 [] p = 1 -> 1 [] p = 2 -> 2 [] OTHER -> 0

Alignment(sep, i) ==
    IF sep.k = "ts" /\ i + 1 <= Len(sep.c) THEN AlignOfMark(sep.c[i + 1]) ELSE 0

HeaderHtml(header, sep) ==
    [i \in 1..Len(Cells(header)) |-> Gen("th", i - 1, Alignment(sep, i - 1))]

RowHtml(row, sep, left) ==
    <<Gen("tr", 0, 0)>>
    \o [i \in 1..Len(Cells(row)) |->
          [Gen("td", i - 1, IF (i - 1) \in left THEN 2 ELSE Alignment(sep, i - 1))
             EXCEPT !.src = row.src]]
    \o <<Gen("endtr", 0, 0)>>

RECURSIVE RowsHtml(_, _, _)
RowsHtml(rows, sep, left) ==
    IF rows = <<>> THEN <<>>
    ELSE RowHtml(Head(rows), sep, left) \o RowsHtml(Tail(rows), sep, left)

B2N(b) == IF b THEN 1 ELSE 0

\* generate_table_html
generate_table_html(header, sep, rows, is_continuation, is_split_table, left) ==
    <<Gen("table", B2N(is_split_table), B2N(is_continuation)),
      Gen("thead", 0, 0), Gen("tr", 0, 0)>>
    \o HeaderHtml(header, sep)
    \o <<Gen("endtr", 0, 0), Gen("endthead", 0, 0), Gen("tbody", 0, 0)>>
    \o RowsHtml(rows, sep, left)
    \o <<Gen("endtbody", 0, 0), Gen("endtable", 0, 0)>>

\* -------------------------------------------------------------- chunking

\* The chunking loop shared by the code splitter (process_markdown, "while
\* pos < len(code_lines_buffer)") and split_table ("while pos <
\* len(data_rows)"): chunk 0 takes first_max elements, every later chunk
\* cont_max. The loop never ends when the budget of a chunk that is still
\* needed is 0.
LoopHangs(len, first_max, cont_max) ==
    len > 0 /\ first_max < len /\ cont_max <= 0

\* the continuation chunks taken one element longer than their budget
RECURSIVE ChunkLoopLongerContinuation(_, _, _, _, _)
ChunkLoopLongerContinuation(buf, pos, chunk_idx, first_max, cont_max) ==
    IF pos >= Len(buf) THEN <<>>
    ELSE LET current_max == IF chunk_idx = 0 THEN first_max ELSE cont_max + 1
         IN <<SubSeq(buf, pos + 1, Min(pos + current_max, Len(buf)))>>
            \o ChunkLoopLongerContinuation(buf, pos + current_max, chunk_idx + 1,
                                           first_max, cont_max)

RECURSIVE ChunkLoop(_, _, _, _, _)
ChunkLoop(buf, pos, chunk_idx, first_max, cont_max) ==
    IF pos >= Len(buf) THEN <<>>
    ELSE LET current_max == IF chunk_idx = 0 THEN first_max ELSE cont_max
         IN <<SubSeq(buf, pos + 1, Min(pos + current_max, Len(buf)))>>
            \o ChunkLoop(buf, pos + current_max, chunk_idx + 1, first_max, cont_max)

code_chunks(buf, first_max, cont_max) == ChunkLoop(buf, 0, 0, first_max, cont_max)

table_chunks(rows, first_max, cont_max) == ChunkLoop(rows, 0, 0, first_max, cont_max)

\* ------------------------------------------------- enclosing-box detector

NoBox == Gen("none", 0, 0)

HasBox(b) == b.k # "none"

BOX_WINDOW == 30

\* The backward scan of detect_enclosing_box: idx runs from
\* search_from_idx - 1 down to, and not including, stop.
RECURSIVE ScanBox(_, _, _, _)
ScanBox(result, idx, stop, div_depth) ==
    IF idx <= stop THEN NoBox
    ELSE LET stripped == result[idx + 1]
         IN IF IsSep(stripped) THEN NoBox
            ELSE IF IsCloseDiv(stripped)
                 THEN ScanBox(result, idx - 1, stop, div_depth + 1)
            ELSE IF IsOpenDiv(stripped)
                 THEN IF div_depth > 0
                      THEN ScanBox(result, idx - 1, stop, div_depth - 1)
                      ELSE IF IsBoxDiv(stripped) THEN stripped ELSE NoBox
            ELSE ScanBox(result, idx - 1, stop, div_depth)

detect_enclosing_box(result, search_from_idx) ==
    ScanBox(result, search_from_idx - 1, Max(search_from_idx - BOX_WINDOW, -1), 0)

\* ------------------------------------------------------- the two splitters

\* the last chunk taken to be chunk n_chunks
IndicatorOffByOne(chunk_idx, n_chunks, what) ==
    LET is_first == chunk_idx = 0
        is_last == chunk_idx = n_chunks
    IN IF is_first /\ ~is_last THEN <<Gen("blank", 0, 0), Gen("ind", 1, what)>>
       ELSE IF ~is_first /\ ~is_last THEN <<Gen("blank", 0, 0), Gen("ind", 2, what)>>
       ELSE IF ~is_first /\ is_last THEN <<Gen("blank", 0, 0), Gen("ind", 3, what)>>
       ELSE <<>>

\* The continuation indicator after chunk chunk_idx of n_chunks: marker 1
\* "continued...", 2 "...continued...", 3 "...continued"; none for a single
\* chunk. what is 0 for a code block and 1 for a table.
Indicator(chunk_idx, n_chunks, what) ==
    LET is_first == chunk_idx = 0
        is_last == chunk_idx = n_chunks - 1
    IN IF is_first /\ ~is_last THEN <<Gen("blank", 0, 0), Gen("ind", 1, what)>>
       ELSE IF ~is_first /\ ~is_last THEN <<Gen("blank", 0, 0), Gen("ind", 2, what)>>
       ELSE IF ~is_first /\ is_last THEN <<Gen("blank", 0, 0), Gen("ind", 3, what)>>
       ELSE <<>>

\* a continuation slide that does not reopen the box
ContinuationHeadWithoutBox(chunk_idx, has_title, current_title, box) ==
    IF chunk_idx = 0 THEN <<>>
    ELSE <<Gen("blank", 0, 0), Gen("sep", 0, 0), Gen("blank", 0, 0)>>
         \o (IF has_title THEN <<Copy(current_title), Gen("blank", 0, 0)>> ELSE <<>>)

\* What opens a continuation slide: the separator, the carried title and
\* the reopened box. has_title is the truth value of current_title.
ContinuationHead(chunk_idx, has_title, current_title, box) ==
    IF chunk_idx = 0 THEN <<>>
    ELSE <<Gen("blank", 0, 0), Gen("sep", 0, 0), Gen("blank", 0, 0)>>
         \o (IF has_title THEN <<Copy(current_title), Gen("blank", 0, 0)>> ELSE <<>>)
         \o (IF HasBox(box) THEN <<Copy(box), Gen("blank", 0, 0)>> ELSE <<>>)

BoxClose(box) == IF HasBox(box) THEN <<Gen("blank", 0, 0), Gen("close", 0, 0)>> ELSE <<>>

\* numbering that starts again at 1 in every chunk
NumberedBlockRestarting(chunk, start_line_num) ==
    <<Gen("pre", 1, 0)>>
    \o [line_idx \in 1..Len(chunk) |->
          [Gen("num", line_idx, 0) EXCEPT !.src = chunk[line_idx].src]]
    \o <<Gen("endpre", 0, 0)>>

\* <pre><code ... data-start-line="start">, one numbered span per line, </code></pre>
NumberedBlock(chunk, start_line_num) ==
    <<Gen("pre", start_line_num, 0)>>
    \o [line_idx \in 1..Len(chunk) |->
          [Gen("num", start_line_num + line_idx - 1, 0) EXCEPT !.src = chunk[line_idx].src]]
    \o <<Gen("endpre", 0, 0)>>

\* The lines of chunks[k..] of a split code block; cumulative_lines is the
\* number of lines of the chunks before k.
RECURSIVE EmitCodeChunks(_, _, _, _, _, _)
EmitCodeChunks(chunks, k, cumulative_lines, has_title, current_title, box) ==
    IF k > Len(chunks) THEN <<>>
    ELSE ContinuationHead(k - 1, has_title, current_title, box)
         \o NumberedBlock(chunks[k], cumulative_lines + 1)
         \o Indicator(k - 1, Len(chunks), 0)
         \o BoxClose(box)
         \o EmitCodeChunks(chunks, k + 1, cumulative_lines + Len(chunks[k]),
                           has_title, current_title, box)

\* the long columns looked for in each chunk on its own
RECURSIVE EmitTableChunksPerChunk(_, _, _, _, _, _, _)
EmitTableChunksPerChunk(chunks, k, parsed, long_columns, has_title, current_title, box) ==
    IF k > Len(chunks) THEN <<>>
    ELSE ContinuationHead(k - 1, has_title, current_title, box)
         \o generate_table_html(parsed.header, parsed.separator, chunks[k],
                                k - 1 > 0, TRUE, detect_long_columns(chunks[k]))
         \o Indicator(k - 1, Len(chunks), 1)
         \o BoxClose(box)
         \o EmitTableChunksPerChunk(chunks, k + 1, parsed, long_columns,
                                    has_title, current_title, box)

RECURSIVE EmitTableChunks(_, _, _, _, _, _, _)
EmitTableChunks(chunks, k, parsed, long_columns, has_title, current_title, box) ==
    IF k > Len(chunks) THEN <<>>
    ELSE ContinuationHead(k - 1, has_title, current_title, box)
         \o generate_table_html(parsed.header, parsed.separator, chunks[k],
                                k - 1 > 0, TRUE, long_columns)
         \o Indicator(k - 1, Len(chunks), 1)
         \o BoxClose(box)
         \o EmitTableChunks(chunks, k + 1, parsed, long_columns,
                            has_title, current_title, box)

\* split_table: the table lines unchanged when they do not parse or fit the
\* first budget, else the chunks
split_table(table_lines, max_rows, has_title, current_title, cont_max_rows, box) ==
    LET parsed == parse_markdown_table(table_lines)
    IN IF ~parsed.ok \/ Len(parsed.data_rows) <= max_rows THEN table_lines
       ELSE EmitTableChunks(table_chunks(parsed.data_rows, max_rows, cont_max_rows), 1,
                            parsed, detect_long_columns(parsed.data_rows),
                            has_title, current_title, box)

\* ------------------------------------------------ content metrics analyzer

RECURSIVE SumOver(_, _, _)
SumOver(f(_), lo, hi) == IF lo > hi THEN 0 ELSE f(lo) + SumOver(f, lo + 1, hi)

CountLines(sl, P(_)) == Cardinality({j \in 1..Len(sl) : P(sl[j])})

\* The positions of the fence lines of a slide, in order, and the pairs the
\* regular expressions ```...``` match: 1st with 2nd, 3rd with 4th, ...
FencePositions(sl) ==
    LET RECURSIVE Go(_)
        Go(j) == IF j > Len(sl) THEN <<>>
                 ELSE (IF IsFence(sl[j]) THEN <<j>> ELSE <<>>) \o Go(j + 1)
    IN Go(1)

FencePairs(sl) ==
    LET fp == FencePositions(sl)
    IN {<<fp[2 * q - 1], fp[2 * q]>> : q \in 1..(Len(fp) \div 2)}

InFencedBlock(sl, j) == \E pr \in FencePairs(sl) : pr[1] <= j /\ j <= pr[2]

\* The 0-based offset of the first character of line j in "\n".join(sl)
LineStart(sl, j) ==
    LET RawPlus(q) == RawLen(sl[q]) + 1 IN SumOver(RawPlus, 1, j - 1)

CONTENT_H1 == 2000
CONTENT_LIST_ITEM == 700
CONTENT_CALLOUT_BOX_BASE == 2500
CONTENT_CODE_BLOCK_LINE == 600
CONTENT_TABLE_HEADER == 1200
CONTENT_TABLE_ROW == 1000
CONTENT_FLEX_CONTAINER_OVERHEAD == 1000
CONTENT_TABLE_IN_CALLOUT_PENALTY == 1500
CONTENT_PER_CHAR == 8
SLIDE_HEIGHT_BUDGET == 20000
CALLOUT_WINDOW == 2000

\* The callout and list heights, with the two-column discount
CalloutHeight(callout_count, has_two_column) ==
    LET h == callout_count * CONTENT_CALLOUT_BOX_BASE
    IN IF has_two_column /\ callout_count >= 2
       THEN (IF callout_count = 2 THEN (h * 55) \div 100 ELSE (h * 45) \div 100)
       ELSE h

ListHeight(list_items, callout_count, has_two_column) ==
    LET h == list_items * CONTENT_LIST_ITEM
    IN IF has_two_column /\ callout_count >= 2
       THEN (IF callout_count = 2 THEN (h * 55) \div 100 ELSE (h * 45) \div 100)
       ELSE h

\* The "table inside callout" heuristic: after the first box marker, within
\* a window of 2000 characters, both a "|" and a "---"
TableInCallout(sl) ==
    LET boxes == {j \in 1..Len(sl) : IsBoxDiv(sl[j])}
        tables == {j \in 1..Len(sl) : IsTableLine(sl[j])}
    IN /\ tables # {}
       /\ boxes # {}
       /\ LET b == CHOOSE j \in boxes : \A q \in boxes : j <= q
              box_pos == LineStart(sl, b) + 12
          IN /\ \E j \in tables : j > b /\ LineStart(sl, j) < box_pos + CALLOUT_WINDOW
             /\ \E j \in (b + 1)..Len(sl) :
                   \/ sl[j].k = "ts" /\ LineStart(sl, j) + 4 <= box_pos + CALLOUT_WINDOW
                   \/ sl[j].k = "sep" /\ LineStart(sl, j) + 3 <= box_pos + CALLOUT_WINDOW

\* The metrics record, from what the scans of analyze_slide_content find.
\* A scale class is the number NN of scale-NN, None when there is none. No kind
\* of line stands for an emoji figure or a flow block, so their two terms of
\* the height are 0. n_lines and vis_length give the length of the text that
\* is left without tags and fenced blocks: the visible characters, and one
\* newline between two lines, less the newlines inside the fenced blocks.
MetricsRecord(has_scale_class, existing_scale_class, no_autoscale, callout_count, has_two_column, code_block_lines, table_count, table_in_callout, list_items, n_lines, vis_length, has_h1) ==
    [has_scale_class |-> has_scale_class,
     existing_scale_class |-> existing_scale_class,
     no_autoscale |-> no_autoscale,
     callout_count |-> callout_count,
     has_two_column |-> has_two_column,
     code_block_lines |-> code_block_lines,
     has_table |-> table_count > 0,
     table_rows |-> Max(0, table_count - 2),
     table_in_callout |-> table_in_callout,
     list_items |-> list_items,
     text_length |-> IF n_lines = 0 THEN 0 ELSE vis_length + (n_lines - 1) - code_block_lines,
     has_h1 |-> has_h1,
     estimated_height |->
        (IF has_h1 THEN CONTENT_H1 ELSE 0)
        + (IF has_two_column /\ callout_count >= 2
           THEN CONTENT_FLEX_CONTAINER_OVERHEAD ELSE 0)
        + CalloutHeight(callout_count, has_two_column)
        + ListHeight(list_items, callout_count, has_two_column)
        + code_block_lines * CONTENT_CODE_BLOCK_LINE
        + (IF table_count > 0
           THEN CONTENT_TABLE_HEADER + Max(0, table_count - 2) * CONTENT_TABLE_ROW ELSE 0)
        + (IF table_in_callout THEN CONTENT_TABLE_IN_CALLOUT_PENALTY ELSE 0)
        + (IF n_lines = 0 THEN 0 ELSE vis_length + (n_lines - 1) - code_block_lines)
          * CONTENT_PER_CHAR]

\* scale_match.group(1).strip() of the first scale directive: NN for
\* "scale-NN"; a directive with more classes gives a text that is no key of
\* SCALE_FACTORS, here 1000 + NN
ScaleClassOf(l) == IF l.k = "scale" THEN l.n ELSE 1000 + l.n

FirstScale(sl) ==
    LET scales == {j \in 1..Len(sl) : IsScaleLine(sl[j])}
    IN IF scales = {} THEN None
       ELSE ScaleClassOf(sl[CHOOSE j \in scales : \A q \in scales : j <= q])

\* the lines matched by CODE_BLOCK_PATTERN, summed over the fenced blocks
CodeBlockLines(fp) ==
    LET PairLenAt(q) == fp[2 * q] - fp[2 * q - 1] IN SumOver(PairLenAt, 1, Len(fp) \div 2)

VisibleLength(sl, pairs) ==
    LET Vis(q) == IF \E pr \in pairs : pr[1] <= q /\ q <= pr[2] THEN 0 ELSE VisLen(sl[q])
    IN SumOver(Vis, 1, Len(sl))

\* analyze_slide_content, on the lines of one slide
analyze_slide_content(sl) ==
    MetricsRecord(\E j \in 1..Len(sl) : IsScaleLine(sl[j]),
                  FirstScale(sl),
                  \E j \in 1..Len(sl) : sl[j].k = "noauto",
                  CountLines(sl, IsBoxDiv),
                  \E j \in 1..Len(sl) : sl[j].k = "flex",
                  CodeBlockLines(FencePositions(sl)),
                  CountLines(sl, IsTableLine),
                  TableInCallout(sl),
                  CountLines(sl, LAMBDA l : l.k = "li"),
                  Len(sl),
                  VisibleLength(sl, FencePairs(sl)),
                  \E j \in 1..Len(sl) : IsTitle(sl[j]))

\* --------------------------------------------------- scale decision engine

\* SCALE_FACTORS, in hundredths; 100 for a class the table does not hold
SCALE_FACTORS(scale_class) ==
    CASE scale_class = 50 -> 200
      [] scale_class = 55 -> 180
      [] scale_class = 60 -> 167
      [] scale_class = 65 -> 154
      [] scale_class = 70 -> 143
      [] scale_class = 75 -> 133
      [] scale_class = 78 -> 128
      [] scale_class = 80 -> 125
      [] scale_class = 85 -> 118
      [] scale_class = 90 -> 111
      [] scale_class = 95 -> 105
      [] OTHER -> 100

\* The height thresholds of determine_scale_class alone
HeightScale(height) ==
    IF height > SLIDE_HEIGHT_BUDGET * 2 THEN 50
    ELSE IF 10 * height > SLIDE_HEIGHT_BUDGET * 17 THEN 60
    ELSE IF 10 * height > SLIDE_HEIGHT_BUDGET * 14 THEN 70
    ELSE IF 10 * height > SLIDE_HEIGHT_BUDGET * 12 THEN 78
    ELSE IF 10 * height > SLIDE_HEIGHT_BUDGET * 11 THEN 80
    ELSE IF height > SLIDE_HEIGHT_BUDGET THEN 90
    ELSE None

\* the opt-out directive not looked at
determine_scale_class_without_opt_out(metrics) ==
    IF metrics.has_scale_class THEN None
    ELSE IF metrics.table_in_callout THEN 78
    ELSE IF /\ metrics.has_two_column /\ metrics.callout_count >= 2
            /\ 10 * metrics.estimated_height > SLIDE_HEIGHT_BUDGET * 9
         THEN 78
    ELSE IF metrics.callout_count >= 3 THEN 80
    ELSE HeightScale(metrics.estimated_height)

\* the rule of the three callouts tried first
determine_scale_class_callouts_first(metrics) ==
    IF metrics.has_scale_class \/ metrics.no_autoscale THEN None
    ELSE IF metrics.callout_count >= 3 THEN 80
    ELSE IF metrics.table_in_callout THEN 78
    ELSE IF /\ metrics.has_two_column /\ metrics.callout_count >= 2
            /\ 10 * metrics.estimated_height > SLIDE_HEIGHT_BUDGET * 9
         THEN 78
    ELSE HeightScale(metrics.estimated_height)

\* determine_scale_class: the scale class NN of scale-NN, or None
determine_scale_class(metrics) ==
    IF metrics.has_scale_class \/ metrics.no_autoscale THEN None
    ELSE IF metrics.table_in_callout THEN 78
    ELSE IF /\ metrics.has_two_column /\ metrics.callout_count >= 2
            /\ 10 * metrics.estimated_height > SLIDE_HEIGHT_BUDGET * 9
         THEN 78
    ELSE IF metrics.callout_count >= 3 THEN 80
    ELSE HeightScale(metrics.estimated_height)

\* inject_scale_class: a slide with a scale directive is returned as it is;
\* else the scale class is added to every directive that reads like the
\* first _class directive (str.replace replaces every occurrence); else a
\* new directive is inserted before the first line that is not blank.
inject_scale_class(slide_content, scale) ==
    LET len == Len(slide_content)
        classes == {j \in 1..len : IsClassLine(slide_content[j])}
        nonblank == {j \in 1..len : slide_content[j].k # "blank"}
        insert_idx == IF nonblank = {} THEN 0
                      ELSE (CHOOSE j \in nonblank : \A q \in nonblank : j <= q) - 1
    IN IF \E j \in 1..len : IsScaleLine(slide_content[j]) THEN slide_content
       ELSE IF classes # {}
       THEN LET old_directive ==
                    slide_content[CHOOSE j \in classes : \A q \in classes : j <= q]
            IN [j \in 1..len |->
                   IF /\ slide_content[j].k = old_directive.k
                      /\ slide_content[j].n = old_directive.n
                      /\ slide_content[j].m = old_directive.m
                   THEN [slide_content[j] EXCEPT !.n = scale]
                   ELSE slide_content[j]]
       ELSE SubSeq(slide_content, 1, insert_idx)
            \o <<Gen("scale", scale, 0)>>
            \o SubSeq(slide_content, insert_idx + 1, len)

\* int(x) of Python for x = a / b, b > 0: truncation toward zero
TruncDiv(a, b) == IF a >= 0 THEN a \div b ELSE -((-a) \div b)

MIN_CODE_LINES == 8

\* scale_factor of compute_available_code_lines, in hundredths
ScaleFactor(metrics, auto_scale) ==
    IF metrics.has_scale_class /\ metrics.existing_scale_class # None
    THEN SCALE_FACTORS(metrics.existing_scale_class)
    ELSE IF auto_scale # None THEN SCALE_FACTORS(auto_scale) ELSE 100

\* other_height: the height of everything but the code
OtherHeight(metrics) ==
    (IF metrics.has_h1 THEN CONTENT_H1 ELSE 0)
    + (IF metrics.has_two_column /\ metrics.callout_count >= 2
       THEN CONTENT_FLEX_CONTAINER_OVERHEAD ELSE 0)
    + CalloutHeight(metrics.callout_count, metrics.has_two_column)
    + ListHeight(metrics.list_items, metrics.callout_count, metrics.has_two_column)
    + (IF metrics.has_table
       THEN CONTENT_TABLE_HEADER + metrics.table_rows * CONTENT_TABLE_ROW ELSE 0)
    + metrics.text_length * CONTENT_PER_CHAR

\* max(min_lines, min(available_lines, max_lines)), with
\* available_lines = int((available_height / 0.6) * 0.9) and
\* max_lines = int(default_max * scale_factor)
ClampLines(other_height, scale_factor, default_max) ==
    Max(MIN_CODE_LINES,
        Min(TruncDiv(((SLIDE_HEIGHT_BUDGET * scale_factor) \div 100 - other_height) * 9,
                     CONTENT_CODE_BLOCK_LINE * 10),
            TruncDiv(default_max * scale_factor, 100)))

AvailableLines(metrics, default_max) ==
    ClampLines(OtherHeight(metrics),
               ScaleFactor(metrics, determine_scale_class(metrics)), default_max)

\* compute_available_code_lines
compute_available_code_lines(sl, default_max) ==
    AvailableLines(analyze_slide_content(sl), default_max)

\* ------------------------------------------------------ line-stream driver

VARIABLES
    lines,                  \* the input lines read so far (lines[0 .. i-1])
    feed,                   \* the lines of the input that follow, as far as fixed
    nitems,                 \* how many blocks of input have been fixed
    args,                   \* max_lines, max_table_rows, no_split
    result_lines,
    in_code_block,
    code_block_start_idx,
    code_lines_buffer,
    current_title,
    current_slide_start,
    in_table,
    table_lines_buffer,
    table_start_idx,
    pending_split_directive,
    skip_next_closing_div,
    stats,
    effective_max_lines,    \* the locals of the last code-block decision
    cont_max,
    enclosing_box_div,
    table_first_max,        \* the locals of the last table decision
    table_cont_max,
    table_enclosing_box,
    pc,                     \* "run" in the main loop, "done" after the output is joined
    search_from_idx,        \* the argument of detect_enclosing_box
    metrics,                \* the argument of determine_scale_class
    scale_class,            \* its result
    content,                \* the argument and result of analyze_and_warn_slides
    passes                  \* how often analyze_and_warn_slides has run on content

input == <<lines, feed, nitems, args>>

code_state == <<in_code_block, code_block_start_idx, code_lines_buffer>>

table_state == <<in_table, table_lines_buffer, table_start_idx>>

code_locals == <<effective_max_lines, cont_max, enclosing_box_div>>

table_locals == <<table_first_max, table_cont_max, table_enclosing_box>>

vars == <<lines, feed, nitems, args, result_lines, in_code_block, code_block_start_idx,
          code_lines_buffer, current_title, current_slide_start, in_table,
          table_lines_buffer, table_start_idx, pending_split_directive,
          skip_next_closing_div, stats, effective_max_lines, cont_max,
          enclosing_box_div, table_first_max, table_cont_max, table_enclosing_box, pc,
          search_from_idx, metrics, scale_class, content, passes>>

\* what the functions checked on their own work on; the driver has none of it
analysis == <<search_from_idx, metrics, scale_class, content, passes>>

driver == <<lines, feed, nitems, args, result_lines, in_code_block, code_block_start_idx,
            code_lines_buffer, current_title, current_slide_start, in_table,
            table_lines_buffer, table_start_idx, pending_split_directive,
            skip_next_closing_div, stats, effective_max_lines, cont_max,
            enclosing_box_div, table_first_max, table_cont_max, table_enclosing_box>>

\* ---- the input

\* The documents start with a frontmatter block, as section 6 of the
\* specification has it: "---", one line of settings, "---".
Frontmatter == <<Gen("sep", 0, 0), Gen("text", 0, 0), Gen("sep", 0, 0)>>

\* frontmatter_end_idx: the index of the second "---" line of the document
frontmatter_end_idx == 2

Run(l, count) == [j \in 1..count |-> l]

\* ``` , count lines of code, ```
CodeBlock(count) == <<Gen("fence", 0, 0)>> \o Run(Gen("code", 0, 0), count) \o <<Gen("fence", 0, 0)>>

\* A table of count lines: the header, the separator row, the data rows
TableLines(count) ==
    SubSeq(<<L("th", 0, 0, <<1, 1>>), L("ts", 0, 0, <<0, 0>>)>>
           \o Run(L("tr", 0, 0, <<1, 1>>), count), 1, count)

\* a code block whose lines look like a slide separator, a heading, a split
\* directive, a closing tag and a table row
FencedLines ==
    <<Gen("fence", 0, 0), Gen("sep", 0, 0), Gen("title", 0, 0), Gen("dir", 2, 3),
      Gen("close", 0, 0), L("th", 0, 0, <<1, 1>>), Gen("fence", 0, 0)>>

MaxItems == 3

CodeSizes == {3, 7, 25}

TableSizes == {1, 6, 12}

DirectiveArgs == {<<4, None>>, <<2, 3>>}

\* What the environment may write next into the document: one line, the
\* opening of a box on a slide that opts out of scaling, a whole code
\* block or a whole table
Items ==
    {<<Gen(k, 0, 0)>> : k \in {"sep", "title", "text", "box", "close", "noauto"}}
    \cup {<<Gen("dir", d[1], d[2])>> : d \in DirectiveArgs}
    \cup {<<Gen("noauto", 0, 0), Gen("box", 0, 0)>>}
    \cup {CodeBlock(c) : c \in CodeSizes}
    \cup {FencedLines}
    \cup {TableLines(c) : c \in TableSizes}

\* process_markdown analyses and rescales every slide before the main pass
\* (analyze_and_warn_slides splits the content at "\n---\n" and leaves the
\* part before the first split alone). The documents of this model are
\* those the analysis leaves as they are: every part after the first is
\* one that determine_scale_class leaves alone.
ScaleStable(part) == determine_scale_class(analyze_slide_content(part)) = None

\* re.split(r"\n---\n", content): line j is a split point when it is "---",
\* is not the first line, and the line before it is not a split point (the
\* matches do not overlap); the last line of the content is none.
RECURSIVE IsSplitPoint(_, _)
IsSplitPoint(ls, j) ==
    j >= 2 /\ j <= Len(ls) /\ IsSep(ls[j]) /\ ~IsSplitPoint(ls, j - 1)

SplitPoints(ls, last) == {j \in 2..last : IsSplitPoint(ls, j)}

LastOf(S) == CHOOSE j \in S : \A q \in S : q <= j

\* ls ends with a "---" line that the next line makes a split point: the
\* part it ends must be stable
EndedPartStable(ls) ==
    LET len == Len(ls)
        sps == SplitPoints(ls, len - 1)
    IN (IsSplitPoint(ls, len) /\ sps # {})
          => ScaleStable(SubSeq(ls, LastOf(sps) + 1, len - 1))

\* a finite set of numbers as an increasing sequence
Sorted(S) ==
    [r \in 1..Cardinality(S) |-> CHOOSE x \in S : Cardinality({y \in S : y < x}) = r - 1]

\* one slide of analyze_and_warn_slides: analysed, and rescaled when
\* determine_scale_class names a class
AnalyzedSlide(slide, scale) ==
    IF scale # None THEN inject_scale_class(slide, scale) ELSE slide

\* the parts after part r of ls, each behind the "---" it follows; sps are
\* the split points in order
RECURSIVE AnalyzedParts(_, _, _)
AnalyzedParts(ls, sps, r) ==
    IF r > Len(sps) THEN <<>>
    ELSE <<ls[sps[r]]>>
         \o AnalyzedSlide(
               SubSeq(ls, sps[r] + 1, IF r = Len(sps) THEN Len(ls) ELSE sps[r + 1] - 1),
               determine_scale_class(analyze_slide_content(
                  SubSeq(ls, sps[r] + 1, IF r = Len(sps) THEN Len(ls) ELSE sps[r + 1] - 1))))
         \o AnalyzedParts(ls, sps, r + 1)

\* analyze_and_warn_slides: the modified content
AnalyzedContent(ls, sps) ==
    IF Len(sps) = 0 THEN ls
    ELSE SubSeq(ls, 1, sps[1] - 1) \o AnalyzedParts(ls, sps, 1)

analyze_and_warn_slides(ls) == AnalyzedContent(ls, Sorted(SplitPoints(ls, Len(ls) - 1)))

\* Reading "---" as line l after ls, where it can be a split point: the part
\* before it must be stable either without it (a line follows) or with it
\* (it is the last line of the document)
PartCanEnd(ls, l) ==
    LET nl == Append(ls, l)
        sps == SplitPoints(nl, Len(nl) - 1)
    IN (IsSplitPoint(nl, Len(nl)) /\ sps # {})
          => \/ ScaleStable(SubSeq(nl, LastOf(sps) + 1, Len(nl) - 1))
             \/ ScaleStable(SubSeq(nl, LastOf(sps) + 1, Len(nl)))

\* the last part of the whole document ls
LastPartStable(ls) ==
    LET sps == SplitPoints(ls, Len(ls) - 1)
    IN sps # {} => ScaleStable(SubSeq(ls, LastOf(sps) + 1, Len(ls)))

\* Reading the next line: <<the line, what is then fixed of the input, nitems>>
NextInputs ==
    IF feed # <<>>
    THEN {<<Head(feed), Tail(feed), nitems>>}
    ELSE IF nitems < MaxItems
         THEN {<<Head(it), Tail(it), nitems + 1>> : it \in Items}
         ELSE {}

\* lines[i], with i = len(lines read so far)
Read(inp) ==
    /\ pc = "run"
    /\ EndedPartStable(lines)
    /\ PartCanEnd(lines, inp[1])
    /\ lines' = Append(lines, [inp[1] EXCEPT !.src = Len(lines) + 1])
    /\ feed' = inp[2]
    /\ nitems' = inp[3]
    /\ args' = args
    /\ pc' = pc
    /\ UNCHANGED analysis

Line(inp) == [inp[1] EXCEPT !.src = Len(lines) + 1]

i == Len(lines)

\* ---- the state

NoTitle == Gen("blank", 0, 0)

NoDirective == <<>>

Args == [max_lines : {5, 10}, max_table_rows : {4}, no_split : BOOLEAN]

\* the state of the driver before the first line
DriverInit ==
    /\ lines = <<>>
    /\ feed = Frontmatter
    /\ nitems = 0
    /\ args \in Args
    /\ result_lines = <<>>
    /\ in_code_block = FALSE
    /\ code_block_start_idx = -1
    /\ code_lines_buffer = <<>>
    /\ current_title = NoTitle
    /\ current_slide_start = frontmatter_end_idx + 1
    /\ in_table = FALSE
    /\ table_lines_buffer = <<>>
    /\ table_start_idx = -1
    /\ pending_split_directive = NoDirective
    /\ skip_next_closing_div = FALSE
    /\ stats = [code_blocks_found |-> 0, code_blocks_split |-> 0, tables_found |-> 0,
                tables_split |-> 0, slides_added |-> 0, split_directives_found |-> 0]
    /\ effective_max_lines = None
    /\ cont_max = None
    /\ enclosing_box_div = NoBox
    /\ table_first_max = None
    /\ table_cont_max = None
    /\ table_enclosing_box = NoBox

NoAnalysis ==
    /\ search_from_idx = 0
    /\ metrics = <<>>
    /\ scale_class = None
    /\ content = <<>>
    /\ passes = 0

Init ==
    /\ DriverInit
    /\ pc = "run"
    /\ NoAnalysis

\* ---- one pass of the main loop, by the branch it takes

\* "Track slide boundaries" and "Track current slide title": what the top
\* of the loop body makes of the slide start, the pending directive, the
\* skip flag and the title before any branch is taken
AtBoundary(l) == IsSep(l) /\ ~in_code_block

SlideStartAfter(l) == IF AtBoundary(l) THEN i + 1 ELSE current_slide_start

\* the directive kept across a slide boundary
PendingKept(l) == pending_split_directive

PendingAfter(l) == IF AtBoundary(l) THEN NoDirective ELSE pending_split_directive

SkipAfter(l) == IF AtBoundary(l) THEN FALSE ELSE skip_next_closing_div

TitleAfter(l) == IF IsTitle(l) /\ ~in_code_block THEN l ELSE current_title

HasTitle(t) == t.k # "blank"

\* every line taken for one with arrow shorthand
process_arrow_syntax_on_every_line(l) == [l EXCEPT !.k = "arrowhtml"]

\* process_arrow_syntax: a line without arrow shorthand is returned as it is
process_arrow_syntax(l) == IF l.k = "arrow" THEN [l EXCEPT !.k = "arrowhtml"] ELSE l

\* first_max and cont_max of a pending directive
DirectiveFirst(d) == d[1]

DirectiveCont(d) == IF d[2] # None THEN d[2] ELSE d[1]

\* "Detect code block start"
CodeStart(inp) ==
    LET l == Line(inp)
    IN /\ Read(inp)
       /\ IsFence(l) /\ ~in_code_block
       /\ in_code_block' = TRUE
       /\ code_block_start_idx' = Len(result_lines)
       /\ code_lines_buffer' = <<>>
       /\ result_lines' = Append(result_lines, l)
       /\ stats' = [stats EXCEPT !.code_blocks_found = @ + 1]
       /\ current_slide_start' = SlideStartAfter(l)
       /\ pending_split_directive' = PendingAfter(l)
       /\ skip_next_closing_div' = SkipAfter(l)
       /\ current_title' = TitleAfter(l)
       /\ UNCHANGED <<table_state, code_locals, table_locals>>

\* The budgets of the code block that ends at line i: effective_max_lines
\* and cont_max
CodeFirstMax ==
    IF pending_split_directive # NoDirective
    THEN DirectiveFirst(pending_split_directive)
    ELSE IF ~args.no_split
         THEN compute_available_code_lines(SubSeq(lines, current_slide_start + 1, i),
                                           args.max_lines)
         ELSE args.max_lines

CodeContMax(first_max) ==
    IF pending_split_directive # NoDirective
    THEN DirectiveCont(pending_split_directive)
    ELSE first_max

\* the split branch: the output is cut back to the opening fence and the
\* chunks are emitted
CodeSplit(chunks, truncated, box) ==
    /\ enclosing_box_div' = box
    /\ stats' = [stats EXCEPT !.code_blocks_split = @ + 1,
                              !.slides_added = @ + Len(chunks) - 1]
    /\ result_lines' = truncated
          \o EmitCodeChunks(chunks, 1, 0, HasTitle(current_title), current_title, box)
    /\ skip_next_closing_div' = IF HasBox(box) THEN TRUE ELSE skip_next_closing_div

CodeEndSplitWith(inp, first_max, cont_max_, truncated) ==
    /\ Read(inp)
    /\ in_code_block /\ IsFence(Line(inp))
    /\ ~args.no_split /\ Len(code_lines_buffer) > first_max
    /\ ~LoopHangs(Len(code_lines_buffer), first_max, cont_max_)
    /\ in_code_block' = FALSE
    /\ effective_max_lines' = first_max
    /\ cont_max' = cont_max_
    /\ pending_split_directive' = NoDirective
    /\ CodeSplit(code_chunks(code_lines_buffer, first_max, cont_max_), truncated,
                 detect_enclosing_box(truncated, Len(truncated)))
    /\ code_lines_buffer' = <<>>
    /\ UNCHANGED <<code_block_start_idx, current_title, current_slide_start,
                   table_state, table_locals>>

CodeEndNoSplitWith(inp, first_max, cont_max_, truncated) ==
    /\ Read(inp)
    /\ in_code_block /\ IsFence(Line(inp))
    /\ ~(~args.no_split /\ Len(code_lines_buffer) > first_max)
    /\ in_code_block' = FALSE
    /\ effective_max_lines' = first_max
    /\ cont_max' = cont_max_
    /\ pending_split_directive' = NoDirective
    /\ result_lines' = truncated \o NumberedBlock(code_lines_buffer, 1)
    /\ code_lines_buffer' = <<>>
    /\ UNCHANGED <<code_block_start_idx, current_title, current_slide_start,
                   skip_next_closing_div, stats, enclosing_box_div,
                   table_state, table_locals>>

CodeEndWith(inp, first_max) ==
    \/ CodeEndSplitWith(inp, first_max, CodeContMax(first_max),
                        SubSeq(result_lines, 1, code_block_start_idx))
    \/ CodeEndNoSplitWith(inp, first_max, CodeContMax(first_max),
                          SubSeq(result_lines, 1, code_block_start_idx))

\* "Detect code block end"
CodeEnd(inp) == CodeEndWith(inp, CodeFirstMax)

\* the top of the loop body run for the lines of a code block as well
CodeBufferTracking(inp) ==
    LET l == Line(inp)
    IN /\ Read(inp)
       /\ in_code_block /\ ~IsFence(l)
       /\ code_lines_buffer' = Append(code_lines_buffer, l)
       /\ current_slide_start' = IF IsSep(l) THEN i + 1 ELSE current_slide_start
       /\ pending_split_directive' = IF IsSep(l) THEN NoDirective
                                     ELSE pending_split_directive
       /\ skip_next_closing_div' = IF IsSep(l) THEN FALSE ELSE skip_next_closing_div
       /\ current_title' = IF IsTitle(l) THEN l ELSE current_title
       /\ UNCHANGED <<result_lines, in_code_block, code_block_start_idx, stats,
                      table_state, code_locals, table_locals>>

\* "Inside code block: buffer the lines"
CodeBuffer(inp) ==
    LET l == Line(inp)
    IN /\ Read(inp)
       /\ in_code_block /\ ~IsFence(l)
       /\ code_lines_buffer' = Append(code_lines_buffer, l)
       /\ UNCHANGED <<result_lines, in_code_block, code_block_start_idx, current_title,
                      current_slide_start, pending_split_directive,
                      skip_next_closing_div, stats, table_state, code_locals,
                      table_locals>>

\* "Start of a new table"
TableStart(inp) ==
    LET l == Line(inp)
    IN /\ Read(inp)
       /\ ~in_code_block /\ ~IsFence(l)
       /\ IsTableLine(l) /\ ~in_table
       /\ in_table' = TRUE
       /\ table_start_idx' = Len(result_lines)
       /\ table_lines_buffer' = <<l>>
       /\ stats' = [stats EXCEPT !.tables_found = @ + 1]
       /\ current_slide_start' = SlideStartAfter(l)
       /\ pending_split_directive' = PendingAfter(l)
       /\ skip_next_closing_div' = SkipAfter(l)
       /\ current_title' = TitleAfter(l)
       /\ UNCHANGED <<result_lines, code_state, code_locals, table_locals>>

\* "Continue buffering table lines"
TableContinue(inp) ==
    LET l == Line(inp)
    IN /\ Read(inp)
       /\ ~in_code_block /\ ~IsFence(l)
       /\ IsTableLine(l) /\ in_table
       /\ table_lines_buffer' = Append(table_lines_buffer, l)
       /\ current_slide_start' = SlideStartAfter(l)
       /\ pending_split_directive' = PendingAfter(l)
       /\ skip_next_closing_div' = SkipAfter(l)
       /\ current_title' = TitleAfter(l)
       /\ UNCHANGED <<result_lines, in_table, table_start_idx, stats, code_state,
                      code_locals, table_locals>>

\* The budgets of the table that ends, given the directive that is pending
TableFirstMax(pending) ==
    IF pending # NoDirective THEN DirectiveFirst(pending) ELSE args.max_table_rows

TableContMax(pending) ==
    IF pending # NoDirective THEN DirectiveCont(pending) ELSE args.max_table_rows

\* a table that just fills its budget taken for one that exceeds it
TableMustSplitAtBudget(pending) ==
    LET parsed == parse_markdown_table(table_lines_buffer)
    IN ~args.no_split /\ parsed.ok /\ Len(parsed.data_rows) >= TableFirstMax(pending)

\* the table split without a look at no_split
TableMustSplitDespiteNoSplit(pending) ==
    LET parsed == parse_markdown_table(table_lines_buffer)
    IN parsed.ok /\ Len(parsed.data_rows) > TableFirstMax(pending)

TableMustSplit(pending) ==
    LET parsed == parse_markdown_table(table_lines_buffer)
    IN ~args.no_split /\ parsed.ok /\ Len(parsed.data_rows) > TableFirstMax(pending)

\* num_chunks as the driver computes it for the statistics
NumChunks(num_data_rows, first_max, cont_max_rows) ==
    LET remaining == num_data_rows - first_max
    IN IF remaining > 0
       THEN 1 + ((remaining + cont_max_rows - 1) \div cont_max_rows)
       ELSE 1

\* the output once the table is split at table_start_idx
TableSplitResult(pending, title) ==
    LET truncated == SubSeq(result_lines, 1, table_start_idx)
        box == detect_enclosing_box(truncated, Len(truncated))
    IN truncated \o split_table(table_lines_buffer, TableFirstMax(pending),
                                 HasTitle(title), title, TableContMax(pending), box)

TableBox == LET truncated == SubSeq(result_lines, 1, table_start_idx)
            IN detect_enclosing_box(truncated, Len(truncated))

\* the line that ends a table is itself handled last: dropped when it is a
\* </div> to skip, else appended
AfterTable(l, result, skip) ==
    /\ result_lines' = IF skip /\ IsCloseDiv(l) THEN result
                       ELSE Append(result, process_arrow_syntax(l))
    /\ skip_next_closing_div' = IF skip /\ IsCloseDiv(l) THEN FALSE ELSE skip

\* "End of table - process it", the table being split
TableEndSplit(inp) ==
    LET l == Line(inp)
        pending == PendingAfter(l)
        title == TitleAfter(l)
        parsed == parse_markdown_table(table_lines_buffer)
    IN /\ Read(inp)
       /\ ~in_code_block /\ ~IsFence(l)
       /\ ~IsTableLine(l) /\ in_table
       /\ TableMustSplit(pending)
       /\ ~LoopHangs(Len(parsed.data_rows), TableFirstMax(pending), TableContMax(pending))
       /\ in_table' = FALSE
       /\ table_first_max' = TableFirstMax(pending)
       /\ table_cont_max' = TableContMax(pending)
       /\ pending_split_directive' = NoDirective
       /\ table_enclosing_box' = TableBox
       /\ stats' = [stats EXCEPT
             !.tables_split = @ + 1,
             !.slides_added = @ + NumChunks(Len(parsed.data_rows), TableFirstMax(pending),
                                            TableContMax(pending)) - 1]
       /\ table_lines_buffer' = <<>>
       /\ AfterTable(l, TableSplitResult(pending, title),
                     IF HasBox(TableBox) THEN TRUE ELSE SkipAfter(l))
       /\ current_slide_start' = SlideStartAfter(l)
       /\ current_title' = title
       /\ UNCHANGED <<table_start_idx, code_state, code_locals>>

\* "End of table - process it", the table kept as it is
TableEndNoSplit(inp) ==
    LET l == Line(inp)
        pending == PendingAfter(l)
    IN /\ Read(inp)
       /\ ~in_code_block /\ ~IsFence(l)
       /\ ~IsTableLine(l) /\ in_table
       /\ ~TableMustSplit(pending)
       /\ in_table' = FALSE
       /\ table_first_max' = TableFirstMax(pending)
       /\ table_cont_max' = TableContMax(pending)
       /\ pending_split_directive' = NoDirective
       /\ table_lines_buffer' = <<>>
       /\ AfterTable(l, result_lines \o table_lines_buffer, SkipAfter(l))
       /\ current_slide_start' = SlideStartAfter(l)
       /\ current_title' = TitleAfter(l)
       /\ UNCHANGED <<table_start_idx, table_enclosing_box, stats, code_state,
                      code_locals>>

\* Any other line, being the </div> that a box split asked to skip
SkipClosingDiv(inp) ==
    LET l == Line(inp)
    IN /\ Read(inp)
       /\ ~in_code_block /\ ~IsFence(l)
       /\ ~IsTableLine(l) /\ ~in_table
       /\ SkipAfter(l) /\ IsCloseDiv(l)
       /\ skip_next_closing_div' = FALSE
       /\ current_slide_start' = SlideStartAfter(l)
       /\ pending_split_directive' = PendingAfter(l)
       /\ current_title' = TitleAfter(l)
       /\ UNCHANGED <<result_lines, stats, code_state, table_state, code_locals,
                      table_locals>>

\* Any other line: a split directive is recorded, the line is appended
OtherLine(inp) ==
    LET l == Line(inp)
    IN /\ Read(inp)
       /\ ~in_code_block /\ ~IsFence(l)
       /\ ~IsTableLine(l) /\ ~in_table
       /\ ~(SkipAfter(l) /\ IsCloseDiv(l))
       /\ pending_split_directive' =
             IF IsSplitDirective(l) THEN <<l.n, l.m>> ELSE PendingAfter(l)
       /\ stats' = IF IsSplitDirective(l)
                   THEN [stats EXCEPT !.split_directives_found = @ + 1] ELSE stats
       /\ result_lines' = Append(result_lines, process_arrow_syntax(l))
       /\ skip_next_closing_div' = SkipAfter(l)
       /\ current_slide_start' = SlideStartAfter(l)
       /\ current_title' = TitleAfter(l)
       /\ UNCHANGED <<code_state, table_state, code_locals, table_locals>>

\* ---- after the loop

AtEnd == pc = "run" /\ feed = <<>> /\ LastPartStable(lines)

\* "if in_table and table_lines_buffer", the table being split
FinishTableSplit ==
    LET parsed == parse_markdown_table(table_lines_buffer)
        pending == pending_split_directive
    IN /\ AtEnd
       /\ in_table /\ table_lines_buffer # <<>>
       /\ TableMustSplit(pending)
       /\ ~LoopHangs(Len(parsed.data_rows), TableFirstMax(pending), TableContMax(pending))
       /\ table_first_max' = TableFirstMax(pending)
       /\ table_cont_max' = TableContMax(pending)
       /\ pending_split_directive' = NoDirective
       /\ table_enclosing_box' = TableBox
       /\ result_lines' = TableSplitResult(pending, current_title)
       /\ stats' = [stats EXCEPT
             !.tables_split = @ + 1,
             !.slides_added = @ + NumChunks(Len(parsed.data_rows), TableFirstMax(pending),
                                            TableContMax(pending)) - 1]
       /\ pc' = "done"
       /\ UNCHANGED analysis
       /\ UNCHANGED <<lines, feed, nitems, args, code_state, table_state, current_title,
                      current_slide_start, skip_next_closing_div, code_locals>>

\* "if in_table and table_lines_buffer", the table kept as it is
FinishTableNoSplit ==
    LET pending == pending_split_directive
    IN /\ AtEnd
       /\ in_table /\ table_lines_buffer # <<>>
       /\ ~TableMustSplit(pending)
       /\ table_first_max' = TableFirstMax(pending)
       /\ table_cont_max' = TableContMax(pending)
       /\ pending_split_directive' = NoDirective
       /\ result_lines' = result_lines \o table_lines_buffer
       /\ pc' = "done"
       /\ UNCHANGED analysis
       /\ UNCHANGED <<lines, feed, nitems, args, code_state, table_state, current_title,
                      current_slide_start, skip_next_closing_div, stats, code_locals,
                      table_enclosing_box>>

\* no table is open at the end of the input
FinishPlain ==
    /\ AtEnd
    /\ ~(in_table /\ table_lines_buffer # <<>>)
    /\ pc' = "done"
    /\ UNCHANGED analysis
    /\ UNCHANGED <<lines, feed, nitems, args, result_lines, code_state, table_state,
                   current_title, current_slide_start, pending_split_directive,
                   skip_next_closing_div, stats, code_locals, table_locals>>

Next ==
    \/ \E inp \in NextInputs : CodeStart(inp)
    \/ \E inp \in NextInputs : CodeEnd(inp)
    \/ \E inp \in NextInputs : CodeBuffer(inp)
    \/ \E inp \in NextInputs : TableStart(inp)
    \/ \E inp \in NextInputs : TableContinue(inp)
    \/ \E inp \in NextInputs : TableEndSplit(inp)
    \/ \E inp \in NextInputs : TableEndNoSplit(inp)
    \/ \E inp \in NextInputs : SkipClosingDiv(inp)
    \/ \E inp \in NextInputs : OtherLine(inp)
    \/ FinishTableSplit
    \/ FinishTableNoSplit
    \/ FinishPlain

Spec == Init /\ [][Next]_vars

\* what the functions checked on their own leave alone of the driver
loop_state == <<lines, feed, args, in_code_block, code_block_start_idx, code_lines_buffer,
                current_title, current_slide_start, in_table, table_lines_buffer,
                table_start_idx, pending_split_directive, skip_next_closing_div, stats,
                effective_max_lines, cont_max, table_first_max, table_cont_max,
                table_enclosing_box>>

\* ------------------------------------------- detect_enclosing_box on its own

MaxBoxItems == 4

\* What may stand in result_lines: a line of text, a separator, the opening
\* of a box or of another div, a closing tag, a box on one line, the
\* continuation indicator, and a run of text nearly as long as the window
BoxItems ==
    {<<Gen(k, 0, 0)>> : k \in {"text", "sep", "box", "div", "close", "box1"}}
    \cup {<<Gen("ind", 3, 0)>>}
    \cup {Run(Gen("text", 0, 0), BOX_WINDOW - 2)}

BoxInit ==
    /\ DriverInit
    /\ pc = "build"
    /\ NoAnalysis

BoxAppend(it) ==
    /\ pc = "build"
    /\ nitems < MaxBoxItems
    /\ result_lines' = result_lines \o it
    /\ nitems' = nitems + 1
    /\ UNCHANGED <<loop_state, enclosing_box_div, pc, analysis>>

\* enclosing_box_div = detect_enclosing_box(result_lines, code_block_start_idx)
BoxDetect(idx) ==
    /\ pc = "build"
    /\ search_from_idx' = idx
    /\ enclosing_box_div' = detect_enclosing_box(result_lines, idx)
    /\ pc' = "detected"
    /\ UNCHANGED <<loop_state, result_lines, nitems, metrics, scale_class, content, passes>>

BoxNext ==
    \/ \E it \in BoxItems : BoxAppend(it)
    \/ \E idx \in 0..Len(result_lines) : BoxDetect(idx)

SpecBox == BoxInit /\ [][BoxNext]_vars

\* ------------------------------------------ determine_scale_class on its own

MaxSlideItems == 3

MaxCallouts == 4

\* the heights at and one thousandth above each bound of determine_scale_class
Heights ==
    {0} \cup {(SLIDE_HEIGHT_BUDGET * f) \div 10 + d : f \in {9, 10, 11, 12, 14, 17, 20},
                                                      d \in {0, 1}}

\* the metrics records given to determine_scale_class directly
MetricsInputs ==
    {[analyze_slide_content(<<>>) EXCEPT !.has_scale_class = f[1],
                                         !.no_autoscale = f[2],
                                         !.table_in_callout = f[3],
                                         !.has_two_column = f[4],
                                         !.callout_count = c,
                                         !.estimated_height = h] :
        f \in BOOLEAN \X BOOLEAN \X BOOLEAN \X BOOLEAN, c \in 0..MaxCallouts, h \in Heights}

\* what a slide may hold: a box with nothing in it, a line of text, the two
\* directives, the opening of a two-column layout, a table of one row
SlideItems ==
    {<<Gen(k, 0, 0)>> : k \in {"text", "noauto", "flex"}}
    \cup {<<Gen("scale", 78, 0)>>}
    \cup {<<Gen("box", 0, 0), Gen("close", 0, 0)>>}
    \cup {TableLines(3)}

ScaleInit ==
    /\ DriverInit
    /\ pc = "slide"
    /\ NoAnalysis

ScaleWrite(it) ==
    /\ pc = "slide"
    /\ nitems < MaxSlideItems
    /\ content' = content \o it
    /\ nitems' = nitems + 1
    /\ UNCHANGED <<loop_state, result_lines, enclosing_box_div, pc, search_from_idx,
                   metrics, scale_class, passes>>

\* metrics = analyze_slide_content(slide)
ScaleAnalyze ==
    /\ pc = "slide"
    /\ metrics' = analyze_slide_content(content)
    /\ pc' = "metrics"
    /\ UNCHANGED <<loop_state, result_lines, nitems, enclosing_box_div, search_from_idx,
                   scale_class, content, passes>>

\* a metrics record made by the caller
ScaleGiven(m) ==
    /\ pc = "slide"
    /\ content = <<>>
    /\ metrics' = m
    /\ pc' = "given"
    /\ UNCHANGED <<loop_state, result_lines, nitems, enclosing_box_div, search_from_idx,
                   scale_class, content, passes>>

\* scale_class = determine_scale_class(metrics)
ScaleDecide ==
    /\ pc \in {"metrics", "given"}
    /\ scale_class' = determine_scale_class(metrics)
    /\ pc' = IF pc = "metrics" THEN "decided" ELSE "decided_given"
    /\ UNCHANGED <<loop_state, result_lines, nitems, enclosing_box_div, search_from_idx,
                   metrics, content, passes>>

ScaleNext ==
    \/ \E it \in SlideItems : ScaleWrite(it)
    \/ ScaleAnalyze
    \/ \E m \in MetricsInputs : ScaleGiven(m)
    \/ ScaleDecide

SpecScale == ScaleInit /\ [][ScaleNext]_vars

\* ------------------------- inject_scale_class and analyze_and_warn_slides

MaxDocItems == 4

MaxPasses == 3

ThreeBoxes == Run(Gen("box1", 0, 0), 3)

\* what a document may hold after its frontmatter
DocItems ==
    {<<Gen(k, 0, 0)>> : k \in {"sep", "text", "cls", "noauto", "blank", "fence"}}
    \cup {<<Gen("scale", 78, 0)>>}
    \cup {ThreeBoxes}

\* content is a whole document ("doc") or one slide of one ("slide")
InjectInit ==
    /\ DriverInit
    /\ pc \in {"doc", "slide"}
    /\ content = IF pc = "doc" THEN Frontmatter ELSE <<>>
    /\ search_from_idx = 0
    /\ metrics = <<>>
    /\ scale_class = None
    /\ passes = 0

InjectWrite(it) ==
    /\ pc \in {"doc", "slide"}
    /\ nitems < MaxDocItems
    /\ pc = "slide" => ~IsSep(it[1])
    /\ content' = content \o it
    /\ nitems' = nitems + 1
    /\ UNCHANGED <<loop_state, result_lines, enclosing_box_div, pc, search_from_idx,
                   metrics, scale_class, passes>>

\* content, warnings = analyze_and_warn_slides(content)
InjectPass ==
    /\ pc \in {"doc", "passed"}
    /\ passes < MaxPasses
    /\ content' = analyze_and_warn_slides(content)
    /\ passes' = passes + 1
    /\ pc' = "passed"
    /\ UNCHANGED <<driver, search_from_idx, metrics, scale_class>>

\* slide = inject_scale_class(slide, scale_class), for a slide of at least
\* one line
InjectSlide(scale) ==
    /\ pc \in {"slide", "injected"}
    /\ content # <<>>
    /\ passes < MaxPasses
    /\ content' = inject_scale_class(content, scale)
    /\ scale_class' = scale
    /\ passes' = passes + 1
    /\ pc' = "injected"
    /\ UNCHANGED <<driver, search_from_idx, metrics>>

InjectNext ==
    \/ \E it \in DocItems : InjectWrite(it)
    \/ InjectPass
    \/ \E scale \in {78, 80} : InjectSlide(scale)

SpecInject == InjectInit /\ [][InjectNext]_vars

\* ------------------------------------------------ split_table on its own

\* the lines of a table: the header, the separator row and the data rows
MaxTableLines == 5

\* the separator rows: ---, ---:, :--- and :---: in either column
SepMarks == {<<0, 0>>, <<1, 2>>, <<2, 3>>, <<3, 1>>}

\* the cell lengths of a data row, at and above the threshold of a long
\* cell; 0 is an empty cell ("|  | x |")
RowCells == {<<1, 1>>, <<LONG_THRESHOLD + 1, 1>>, <<1, LONG_THRESHOLD + 1>>,
             <<LONG_THRESHOLD, LONG_THRESHOLD + 1>>, <<0, LONG_THRESHOLD + 1>>}

\* max_rows and cont_max_rows
RowBudgets == {<<1, 1>>, <<1, 2>>, <<2, 1>>, <<4, 4>>}

\* what the n-th line of a table may be
TableRows(n) ==
    IF n = 1 THEN {L("th", 0, 0, <<1, 1>>)}
    ELSE IF n = 2 THEN {L("ts", 0, 0, mk) : mk \in SepMarks}
    ELSE {L("tr", 0, 0, c) : c \in RowCells}

TableInit ==
    /\ DriverInit
    /\ pc = "rows"
    /\ NoAnalysis

TableAppend(row) ==
    /\ pc = "rows"
    /\ Len(table_lines_buffer) < MaxTableLines
    /\ table_lines_buffer' =
          Append(table_lines_buffer, [row EXCEPT !.src = Len(table_lines_buffer) + 1])
    /\ UNCHANGED <<lines, feed, nitems, args, result_lines, code_state, current_title,
                   current_slide_start, in_table, table_start_idx,
                   pending_split_directive, skip_next_closing_div, stats, code_locals,
                   table_locals, pc, analysis>>

\* result = split_table(table_lines, max_rows, current_title, cont_max_rows,
\* enclosing_box_div)
TableSplit(budget, title, box) ==
    /\ pc = "rows"
    /\ table_first_max' = budget[1]
    /\ table_cont_max' = budget[2]
    /\ current_title' = title
    /\ table_enclosing_box' = box
    /\ result_lines' = split_table(table_lines_buffer, budget[1], HasTitle(title), title,
                                   budget[2], box)
    /\ pc' = "split"
    /\ UNCHANGED <<lines, feed, nitems, args, code_state, current_slide_start, in_table,
                   table_lines_buffer, table_start_idx, pending_split_directive,
                   skip_next_closing_div, stats, code_locals, analysis>>

TableNext ==
    \/ \E row \in TableRows(Len(table_lines_buffer) + 1) : TableAppend(row)
    \/ \E budget \in RowBudgets, title \in {NoTitle, Gen("title", 0, 0)},
         box \in {NoBox, Gen("box", 0, 0)} : TableSplit(budget, title, box)

SpecTable == TableInit /\ [][TableNext]_vars

\* ------------------------------- compute_available_code_lines on its own

\* effective_max_lines = compute_available_code_lines(slide_content, max_lines)
LinesCompute ==
    /\ pc = "slide"
    /\ metrics' = analyze_slide_content(content)
    /\ scale_class' = determine_scale_class(analyze_slide_content(content))
    /\ effective_max_lines' = compute_available_code_lines(content, args.max_lines)
    /\ pc' = "lines"
    /\ UNCHANGED <<lines, feed, nitems, args, result_lines, code_state, current_title,
                   current_slide_start, table_state, pending_split_directive,
                   skip_next_closing_div, stats, cont_max, enclosing_box_div, table_locals,
                   search_from_idx, content, passes>>

LinesNext ==
    \/ \E it \in SlideItems : ScaleWrite(it)
    \/ LinesCompute

SpecLines == ScaleInit /\ [][LinesNext]_vars

\* ------------------------- parse_ascii_layout (poster_preprocessor.py)

\* A layout text is the sequence of its rows, a row the sequence of its
\* characters: region labels, "." for an empty cell, " " for a blank.

\* str.strip(): the blanks at both ends removed
RECURSIVE strip(_)
strip(row) ==
    IF row = <<>> THEN row
    ELSE IF Head(row) = " " THEN strip(Tail(row))
    ELSE IF row[Len(row)] = " " THEN strip(SubSeq(row, 1, Len(row) - 1))
    ELSE row

\* the rectangle test left out
parse_ascii_layout_any_shape(layout_text) ==
    LET grid == SelectSeq([r \in 1..Len(layout_text) |-> strip(layout_text[r])],
                          LAMBDA row : row # <<>>)
        chars == {grid[r][c] : r \in 1..Len(grid), c \in 1..Len(grid[1])} \ {"."}
        points(ch) == {p \in (1..Len(grid)) \X (1..Len(grid[1])) : grid[p[1]][p[2]] = ch}
        area(ch) ==
            [row_start |-> (CHOOSE p \in points(ch) : \A q \in points(ch) : p[1] <= q[1])[1] - 1,
             row_end |-> (CHOOSE p \in points(ch) : \A q \in points(ch) : p[1] >= q[1])[1] - 1,
             col_start |-> (CHOOSE p \in points(ch) : \A q \in points(ch) : p[2] <= q[2])[2] - 1,
             col_end |-> (CHOOSE p \in points(ch) : \A q \in points(ch) : p[2] >= q[2])[2] - 1]
    IN IF grid = <<>> THEN [ok |-> FALSE, error |-> "Empty layout"]
       ELSE IF \E r \in 1..Len(grid) : Len(grid[r]) # Len(grid[1])
       THEN [ok |-> FALSE, error |-> "Ragged rows"]
       ELSE [ok |-> TRUE, grid |-> grid, labels |-> chars,
             areas |-> [ch \in chars |-> area(ch)],
             rows |-> Len(grid), cols |-> Len(grid[1])]

\* parse_ascii_layout: the ValueError is a record with ok = FALSE, the row
\* and column bounds count from 0 as in the source
parse_ascii_layout(layout_text) ==
    LET grid == SelectSeq([r \in 1..Len(layout_text) |-> strip(layout_text[r])],
                          LAMBDA row : row # <<>>)
        chars == {grid[r][c] : r \in 1..Len(grid), c \in 1..Len(grid[1])} \ {"."}
        points(ch) == {p \in (1..Len(grid)) \X (1..Len(grid[1])) : grid[p[1]][p[2]] = ch}
        area(ch) ==
            [row_start |-> (CHOOSE p \in points(ch) : \A q \in points(ch) : p[1] <= q[1])[1] - 1,
             row_end |-> (CHOOSE p \in points(ch) : \A q \in points(ch) : p[1] >= q[1])[1] - 1,
             col_start |-> (CHOOSE p \in points(ch) : \A q \in points(ch) : p[2] <= q[2])[2] - 1,
             col_end |-> (CHOOSE p \in points(ch) : \A q \in points(ch) : p[2] >= q[2])[2] - 1]
        expected_area(ch) ==
            (area(ch).row_end - area(ch).row_start + 1)
            * (area(ch).col_end - area(ch).col_start + 1)
    IN IF grid = <<>> THEN [ok |-> FALSE, error |-> "Empty layout"]
       ELSE IF \E r \in 1..Len(grid) : Len(grid[r]) # Len(grid[1])
       THEN [ok |-> FALSE, error |-> "Ragged rows"]
       ELSE IF \E ch \in chars : Cardinality(points(ch)) # expected_area(ch)
       THEN [ok |-> FALSE, error |-> "not rectangular"]
       ELSE [ok |-> TRUE, grid |-> grid, labels |-> chars,
             areas |-> [ch \in chars |-> area(ch)],
             rows |-> Len(grid), cols |-> Len(grid[1])]

MaxGridRows == 2

MaxGridCols == 4

\* the rows of a layout text: up to MaxGridCols characters
RECURSIVE GridRows(_)
GridRows(n) ==
    IF n = 0 THEN {<<>>}
    ELSE GridRows(n - 1)
         \cup {Append(row, ch) : row \in GridRows(n - 1), ch \in {"A", "B", ".", " "}}

LayoutInit ==
    /\ DriverInit
    /\ pc = "grid"
    /\ NoAnalysis

LayoutAppend(row) ==
    /\ pc = "grid"
    /\ Len(content) < MaxGridRows
    /\ content' = Append(content, row)
    /\ UNCHANGED <<driver, pc, search_from_idx, metrics, scale_class, passes>>

\* layout = parse_ascii_layout(layout_text)
LayoutParse ==
    /\ pc = "grid"
    /\ metrics' = parse_ascii_layout(content)
    /\ pc' = "parsed"
    /\ UNCHANGED <<driver, search_from_idx, scale_class, content, passes>>

LayoutNext ==
    \/ \E row \in GridRows(MaxGridCols) : LayoutAppend(row)
    \/ LayoutParse

SpecLayout == LayoutInit /\ [][LayoutNext]_vars

\* -------------------------------------- the chunking loops, step by step

MaxBudget == 2

MaxBufferLen == 4

\* The driver at the end of a code block (in_code_block) or of a table
\* (in_table) whose lines are still to be buffered, under any directive that
\* SPLIT_DIRECTIVE_PATTERN matches ("\d+" matches 0) and any max_table_rows
ChunkInit ==
    /\ lines = Frontmatter
    /\ feed = <<>>
    /\ nitems = 0
    /\ args \in [max_lines : {5, 10}, max_table_rows : {0, 4}, no_split : BOOLEAN]
    /\ result_lines = <<>>
    /\ in_code_block \in BOOLEAN
    /\ in_table = ~in_code_block
    /\ code_block_start_idx = -1
    /\ code_lines_buffer = <<>>
    /\ current_title = NoTitle
    /\ current_slide_start = frontmatter_end_idx + 1
    /\ table_lines_buffer = <<>>
    /\ table_start_idx = -1
    /\ pending_split_directive \in
          {NoDirective} \cup ((0..MaxBudget) \X ({None} \cup (0..MaxBudget)))
    /\ skip_next_closing_div = FALSE
    /\ stats = [code_blocks_found |-> 0, code_blocks_split |-> 0, tables_found |-> 0,
                tables_split |-> 0, slides_added |-> 0, split_directives_found |-> 0]
    /\ effective_max_lines = None
    /\ cont_max = None
    /\ enclosing_box_div = NoBox
    /\ table_first_max = None
    /\ table_cont_max = None
    /\ table_enclosing_box = NoBox
    /\ pc = "fill"
    /\ NoAnalysis

\* code_lines_buffer.append(line), table_lines_buffer.append(line)
ChunkAppend ==
    /\ pc = "fill"
    /\ Len(code_lines_buffer) + Len(table_lines_buffer) < MaxBufferLen
    /\ code_lines_buffer' =
          IF in_code_block THEN Append(code_lines_buffer, Gen("code", 0, 0))
          ELSE code_lines_buffer
    /\ table_lines_buffer' =
          IF in_table
          THEN Append(table_lines_buffer,
                      IF Len(table_lines_buffer) = 0 THEN L("th", 0, 0, <<1, 1>>)
                      ELSE IF Len(table_lines_buffer) = 1 THEN L("ts", 0, 0, <<0, 0>>)
                      ELSE L("tr", 0, 0, <<1, 1>>))
          ELSE table_lines_buffer
    /\ UNCHANGED <<lines, feed, nitems, args, result_lines, in_code_block,
                   code_block_start_idx, current_title, current_slide_start, in_table,
                   table_start_idx, pending_split_directive, skip_next_closing_div,
                   stats, code_locals, table_locals, pc, analysis>>

\* The budgets are computed and the block is either kept or handed to the
\* loop: "chunks = []; pos = 0; chunk_idx = 0". effective_max_lines and
\* cont_max hold the budgets of either loop, search_from_idx is pos, passes
\* is chunk_idx, result_lines the elements the chunks hold so far.
ChunkDecide ==
    LET first_max == IF in_code_block THEN CodeFirstMax
                     ELSE TableFirstMax(pending_split_directive)
        cont_max_ == IF in_code_block THEN CodeContMax(first_max)
                     ELSE TableContMax(pending_split_directive)
        must_split == IF in_code_block
                      THEN ~args.no_split /\ Len(code_lines_buffer) > first_max
                      ELSE TableMustSplit(pending_split_directive)
    IN /\ pc = "fill"
       /\ effective_max_lines' = first_max
       /\ cont_max' = cont_max_
       /\ pc' = IF must_split THEN "loop" ELSE "kept"
       /\ UNCHANGED <<lines, feed, nitems, args, result_lines, code_state,
                      current_title, current_slide_start, table_state,
                      pending_split_directive, skip_next_closing_div, stats,
                      enclosing_box_div, table_locals, analysis>>

\* One test of "while pos < len(...)" and, when it holds, one run of the
\* body. chunk_idx is only compared with 0: it stops counting one above the
\* number of chunks a loop that ends can make.
ChunkStep ==
    LET buf == IF in_code_block THEN code_lines_buffer
               ELSE parse_markdown_table(table_lines_buffer).data_rows
        pos == search_from_idx
        chunk_idx == passes
        current_max == IF chunk_idx = 0 THEN effective_max_lines ELSE cont_max
    IN /\ pc = "loop"
       /\ IF pos < Len(buf)
          THEN /\ result_lines' =
                     result_lines \o SubSeq(buf, pos + 1, Min(pos + current_max, Len(buf)))
               /\ search_from_idx' = pos + current_max
               /\ passes' = Min(chunk_idx + 1, MaxBufferLen + 1)
               /\ pc' = pc
          ELSE /\ pc' = "chunked"
               /\ UNCHANGED <<result_lines, search_from_idx, passes>>
       /\ UNCHANGED <<lines, feed, nitems, args, code_state, current_title,
                      current_slide_start, table_state, pending_split_directive,
                      skip_next_closing_div, stats, code_locals, table_locals,
                      metrics, scale_class, content>>

ChunkNext ==
    \/ ChunkAppend
    \/ ChunkDecide
    \/ ChunkStep

\* the interpreter keeps running the loop it is in
SpecChunk == ChunkInit /\ [][ChunkNext]_vars /\ WF_vars(ChunkStep)

\* ------------------------------------ the driver on a document with a box

\* The driver before the first line of a document whose first slide opts
\* out of scaling and opens a callout box: what follows the box is written
\* as in Spec
BoxedInit ==
    /\ lines = <<>>
    /\ feed = Frontmatter \o <<Gen("noauto", 0, 0), Gen("box", 0, 0)>>
    /\ nitems = 0
    /\ args \in Args
    /\ result_lines = <<>>
    /\ in_code_block = FALSE
    /\ code_block_start_idx = -1
    /\ code_lines_buffer = <<>>
    /\ current_title = NoTitle
    /\ current_slide_start = frontmatter_end_idx + 1
    /\ in_table = FALSE
    /\ table_lines_buffer = <<>>
    /\ table_start_idx = -1
    /\ pending_split_directive = NoDirective
    /\ skip_next_closing_div = FALSE
    /\ stats = [code_blocks_found |-> 0, code_blocks_split |-> 0, tables_found |-> 0,
                tables_split |-> 0, slides_added |-> 0, split_directives_found |-> 0]
    /\ effective_max_lines = None
    /\ cont_max = None
    /\ enclosing_box_div = NoBox
    /\ table_first_max = None
    /\ table_cont_max = None
    /\ table_enclosing_box = NoBox
    /\ pc = "run"
    /\ NoAnalysis

SpecBoxed == BoxedInit /\ [][Next]_vars

\* ============================================================= properties

OneTo(n) == [j \in 1..n |-> j]

\* the line numbers of the numbered code lines of out, in output order
NumbersOf(out) ==
    LET nums == SelectSeq(out, LAMBDA x : x.k = "num")
    IN [j \in 1..Len(nums) |-> nums[j].n]

\* the positions of the lines of one kind in out
Idx(out, kind) == {j \in 1..Len(out) : out[j].k = kind}

\* how many positions of inner lie between the r-th of open and of close
Between(inner, open, close) ==
    [r \in 1..Len(open) |->
        Cardinality({j \in inner : open[r] < j /\ j < close[r]})]

\* the number of code lines of each <pre><code> block of out, in order
BlockSizes(out) ==
    Between(Idx(out, "num"), Sorted(Idx(out, "pre")), Sorted(Idx(out, "endpre")))

\* the number of body rows of each <table> of out, in order
TableRowCounts(out) ==
    Between(Idx(out, "endtr"), Sorted(Idx(out, "tbody")), Sorted(Idx(out, "endtbody")))

\* The chunk starts (0) and the continuation markers (1, 2, 3) of out in
\* output order, of the code blocks (what = 0) or of the tables (what = 1)
ChunkEvents(out, what) ==
    LET ev == SelectSeq(out, LAMBDA x :
                  \/ x.k = "ind" /\ x.m = what
                  \/ x.k = (IF what = 0 THEN "pre" ELSE "table"))
    IN [j \in 1..Len(ev) |-> IF ev[j].k = "ind" THEN ev[j].n ELSE 0]

\* chunk, "continued...", chunk, "...continued...", ..., chunk, "...continued"
ExpectedEvents(k) ==
    IF k <= 1 THEN [j \in 1..k |-> 0]
    ELSE [j \in 1..(2 * k) |->
            IF j % 2 = 1 THEN 0 ELSE IF j = 2 THEN 1 ELSE IF j = 2 * k THEN 3 ELSE 2]

\* the chunk sizes that a first budget and a continuation budget ask for
RECURSIVE BudgetSizes(_, _, _)
BudgetSizes(len, first, cont) ==
    IF len <= 0 THEN <<>>
    ELSE IF len <= first THEN <<len>>
    ELSE <<first>> \o BudgetSizes(len - first, cont, cont)

\* this step reads the closing fence of a code block
CodeCloses == in_code_block /\ ~in_code_block'

\* what the code block that closes in this step leaves in the output
CodeOutput == SubSeq(result_lines', code_block_start_idx + 1, Len(result_lines'))

\* this step processes the buffered table
TableCloses == pc = "run" /\ in_table /\ (~in_table' \/ pc' = "done")

\* the output from where the table that closes in this step began
TableOutput == SubSeq(result_lines', table_start_idx + 1, Len(result_lines'))

\* this step reads a line
LineRead == Len(lines') = Len(lines) + 1

\* this step reads a slide separator outside a code block
SepRead == LineRead /\ IsSep(lines'[Len(lines')]) /\ ~in_code_block

\* ---- C1

C1_Numbered(N, F, C, out, split_enabled) ==
    /\ N <= F => /\ BlockSizes(out) = <<N>>
                 /\ NumbersOf(out) = OneTo(N)
    /\ (N > F /\ split_enabled) =>
          /\ Len(BlockSizes(out)) >= 2
          /\ BlockSizes(out)[1] <= F
          /\ \A j \in 2..Len(BlockSizes(out)) : BlockSizes(out)[j] <= C
          /\ \A j \in 1..Len(BlockSizes(out)) : BlockSizes(out)[j] >= 1
          /\ NumbersOf(out) = OneTo(N)

\* C1: when a code block of N lines closes with first budget F >= 1 and
\* continuation budget C >= 1, what it leaves in the output is, for N <= F,
\* one <pre><code> block numbered 1..N, and for N > F with splitting
\* enabled, at least two blocks, the first of at most F lines and the
\* later ones of at most C, whose line numbers read in output order are
\* 1, 2, ..., N.
C1_CodeBlockChunks ==
    [][(CodeCloses /\ effective_max_lines' >= 1 /\ cont_max' >= 1)
          => C1_Numbered(Len(code_lines_buffer), effective_max_lines', cont_max',
                         CodeOutput, ~args.no_split)]_vars

\* a 25-line block has been split under "split: 2, 3"
C1_SplitUnderTwoBudgets ==
    /\ pc = "done"
    /\ stats.code_blocks_split = 1
    /\ effective_max_lines = 2 /\ cont_max = 3
    /\ Len(BlockSizes(result_lines)) = 9

\* ---- C2

\* C2: the chunks of a code block or table that closes are followed by the
\* markers "continued..." (first of several), "...continued..." (middle)
\* and "...continued" (last of several), one per chunk and in chunk order;
\* a single chunk has none. A table of 10 data rows closing with row
\* budget 4 leaves tables of 4, 4 and 2 rows with the three markers in
\* that order.
C2_IndicatorsInOrder ==
    [][/\ CodeCloses =>
            ChunkEvents(CodeOutput, 0) = ExpectedEvents(Len(BlockSizes(CodeOutput)))
       /\ TableCloses =>
            ChunkEvents(TableOutput, 1)
               = ExpectedEvents(Len(TableRowCounts(TableOutput)))
       /\ (/\ TableCloses /\ ~args.no_split
           /\ Len(table_lines_buffer) = 12
           /\ table_first_max' = 4 /\ table_cont_max' = 4)
            => /\ TableRowCounts(TableOutput) = <<4, 4, 2>>
               /\ ChunkEvents(TableOutput, 1) = <<0, 1, 0, 2, 0, 3>>]_vars

\* the table of 10 data rows has been split in three
C2_ThreeTableChunks ==
    /\ table_first_max = 4
    /\ TableRowCounts(result_lines) = <<4, 4, 2>>
    /\ ChunkEvents(result_lines, 1) = <<0, 1, 0, 2, 0, 3>>

\* ---- C3

\* no separator, fence or table line lies strictly between d and a
PlainBetween(ls, d, a) ==
    \A q \in (d + 1)..(a - 1) : ~IsSep(ls[q]) /\ ~IsFence(ls[q]) /\ ~IsTableLine(ls[q])

\* the split directives that precede the block starting at line a with no
\* other block and no separator between
DirectivesBefore(ls, a) ==
    {d \in 1..(a - 1) : IsSplitDirective(ls[d]) /\ PlainBetween(ls, d, a)}

DirectiveBefore(ls, a) == ls[LastOf(DirectivesBefore(ls, a))]

\* the line of the opening fence of the code block that is being buffered
CodeBlockLine == Len(lines) - Len(code_lines_buffer)

\* the first line of the table that is being buffered
TableLine == table_lines_buffer[1].src

\* the buffered table is the run of lines that ends with the last line read
TableContiguous == TableLine = Len(lines) - Len(table_lines_buffer) + 1

C3_CodeFollows(d) ==
    BlockSizes(CodeOutput)
       = BudgetSizes(Len(code_lines_buffer), d.n, DirectiveCont(<<d.n, d.m>>))

C3_TableFollows(d) ==
    TableRowCounts(TableOutput)
       = IF Len(table_lines_buffer) - 2 <= d.n THEN <<>>
         ELSE BudgetSizes(Len(table_lines_buffer) - 2, d.n, DirectiveCont(<<d.n, d.m>>))

\* C3: with splitting enabled, a code block or table that is preceded on
\* its slide by a split directive "N" or "N, M", with no other block and no
\* separator between the directive and the block, is chunked with first
\* budget N and continuation budget M (N when M is absent).
C3_DirectiveOverrides ==
    [][/\ (CodeCloses /\ ~args.no_split /\ DirectivesBefore(lines, CodeBlockLine) # {})
            => C3_CodeFollows(DirectiveBefore(lines, CodeBlockLine))
       /\ (/\ TableCloses /\ ~args.no_split /\ TableContiguous
           /\ DirectivesBefore(lines, TableLine) # {})
            => C3_TableFollows(DirectiveBefore(lines, TableLine))]_vars

\* ---- C4

\* line q of ls ends a block: a closing fence, or the line after a table
ClosesBlock(ls, q) ==
    \/ IsFence(ls[q]) /\ Cardinality({f \in 1..q : IsFence(ls[f])}) % 2 = 0
    \/ q > 1 /\ IsTableLine(ls[q - 1]) /\ ~IsTableLine(ls[q]) /\ ~IsFence(ls[q])

\* the split directives before line e that no separator and no end of a
\* block has followed yet
LiveDirectives(ls, e) ==
    {d \in 1..(e - 1) :
        /\ IsSplitDirective(ls[d])
        /\ \A q \in (d + 1)..(e - 1) : ~IsSep(ls[q]) /\ ~ClosesBlock(ls, q)}

\* the budget of a code block without a directive
CodeDefault ==
    IF ~args.no_split
    THEN compute_available_code_lines(SubSeq(lines, current_slide_start + 1, i),
                                      args.max_lines)
    ELSE args.max_lines

\* C4: the pending directive is cleared by every code block or table that
\* closes and by every slide separator read outside a code block; a block
\* that closes when every directive before it has been followed by a
\* separator or by the end of an earlier block has the default budgets.
C4_DirectiveOneShot ==
    [][/\ (CodeCloses \/ TableCloses \/ SepRead)
            => pending_split_directive' = NoDirective
       /\ (CodeCloses /\ LiveDirectives(lines, Len(lines) + 1) = {})
            => effective_max_lines' = CodeDefault /\ cont_max' = CodeDefault
       /\ (TableCloses /\ LiveDirectives(lines, Len(lines) + 1) = {})
            => /\ table_first_max' = args.max_table_rows
               /\ table_cont_max' = args.max_table_rows]_vars

\* "split: 2, 3", then a block of 3 lines split by it, then a block of 25
\* lines split by the default budget
C4_SecondBlockDefault ==
    /\ pc = "done"
    /\ stats.split_directives_found = 1
    /\ stats.code_blocks_split = 2
    /\ BlockSizes(result_lines) = <<2, 1, 10, 10, 5>>

\* ---- C5

\* this step reads a line outside a code block and a table that is not
\* put into the output
LineDropped ==
    /\ LineRead /\ ~in_code_block /\ ~in_table
    /\ ~IsFence(lines'[Len(lines')]) /\ ~IsTableLine(lines'[Len(lines')])
    /\ result_lines' = result_lines

\* the part of the output after its last separator
LastSlide(out) ==
    LET seps == {j \in 1..Len(out) : IsSep(out[j])}
    IN IF seps = {} THEN out ELSE SubSeq(out, LastOf(seps) + 1, Len(out))

\* a splitter has closed a box on the slide that out ends with
BoxSplitOnSlide(out) ==
    \E j \in 1..Len(LastSlide(out)) :
        IsCloseDiv(LastSlide(out)[j]) /\ LastSlide(out)[j].src = 0

\* C5: the skip flag is cleared by every slide separator read outside a
\* code block, and a line that is left out of the output is a </div> of a
\* slide on which a split has used an enclosing box.
C5_SuppressOnSameSlide ==
    [][/\ SepRead => ~skip_next_closing_div'
       /\ LineDropped => /\ IsCloseDiv(lines'[Len(lines')])
                         /\ BoxSplitOnSlide(result_lines)]_vars

\* ---- C6

ReopenedBoxes(out) == Cardinality({j \in 1..Len(out) : IsBoxDiv(out[j]) /\ out[j].src = 0})

SyntheticCloses(out) ==
    Cardinality({j \in 1..Len(out) : IsCloseDiv(out[j]) /\ out[j].src = 0})

\* a 25-line code block closes inside a detected box with budget 10
C6_BoxedBlockCloses ==
    /\ CodeCloses /\ ~args.no_split
    /\ Len(code_lines_buffer) = 25
    /\ effective_max_lines' = 10 /\ cont_max' = 10
    /\ HasBox(detect_enclosing_box(SubSeq(result_lines, 1, code_block_start_idx),
                                   code_block_start_idx))

\* this step reads a </div> line outside a code block and a table
CloseRead ==
    /\ LineRead /\ ~in_code_block /\ ~in_table
    /\ IsCloseDiv(lines'[Len(lines')])

\* C6 (as stated): the 25-line block in a box, split with budget 10, has
\* reopened box markup on 3 continuation chunks.
C6_ThreeContinuationChunks ==
    [][C6_BoxedBlockCloses => ReopenedBoxes(CodeOutput) = 3]_vars

\* C6 (amended): the 25-line block in a box, split with budget 10, leaves
\* 3 chunks of 10, 10 and 5 lines; the 2 continuation chunks each reopen
\* the box, each of the 3 chunks is closed by a generated </div>, and the
\* skip flag is set. A </div> read while the flag is set is left out of
\* the output and clears the flag; a </div> read while it is clear is kept.
C6_TwoContinuationChunks ==
    [][/\ C6_BoxedBlockCloses =>
            /\ BlockSizes(CodeOutput) = <<10, 10, 5>>
            /\ ReopenedBoxes(CodeOutput) = 2
            /\ SyntheticCloses(CodeOutput) = 3
            /\ skip_next_closing_div'
       /\ (CloseRead /\ skip_next_closing_div)
            => result_lines' = result_lines /\ ~skip_next_closing_div'
       /\ (CloseRead /\ ~skip_next_closing_div)
            => result_lines' = Append(result_lines, lines'[Len(lines')])]_vars

\* the </div> after the split block in the box has been read and left out
C6_ClosingDivSuppressed ==
    /\ BlockSizes(result_lines) = <<10, 10, 5>>
    /\ ReopenedBoxes(result_lines) = 2
    /\ effective_max_lines = 10
    /\ IsCloseDiv(lines[Len(lines)])
    /\ result_lines[Len(result_lines)].src = 0
    /\ ~skip_next_closing_div

\* ---- C7

\* the last "---" among the first idx lines of ls, 0 when there is none
LastSepBefore(ls, idx) ==
    LET seps == {p \in 1..idx : IsSep(ls[p])} IN IF seps = {} THEN 0 ELSE LastOf(seps)

\* an opening tag whose div is not closed on the same line
StaysOpen(l) == l.k \in {"box", "div", "flex"}

OpenCount(ls, a, b) == Cardinality({q \in a..b : StaysOpen(ls[q])})

CloseCount(ls, a, b) == Cardinality({q \in a..b : IsCloseDiv(ls[q])})

\* the div opened at line p is open after line idx: no closing tag after p
\* finds the divs opened after p all closed
StillOpen(ls, p, idx) ==
    /\ StaysOpen(ls[p])
    /\ \A q \in (p + 1)..idx : CloseCount(ls, p + 1, q) <= OpenCount(ls, p + 1, q)

\* the innermost div opened on the current slide and open after line idx,
\* when it is a box
InnermostOpenBox(ls, idx) ==
    LET open == {p \in (LastSepBefore(ls, idx) + 1)..idx : StillOpen(ls, p, idx)}
    IN IF open = {} THEN NoBox
       ELSE IF IsBoxDiv(ls[LastOf(open)]) THEN ls[LastOf(open)] ELSE NoBox

\* the lines of the current slide before idx all lie in the window scanned
InWindow(ls, idx) == idx - LastSepBefore(ls, idx) <= BOX_WINDOW - 1

\* C7: detect_enclosing_box(lines, i) is the opening line of the innermost
\* box opened on the current slide before i and still open there, and null
\* when there is none, when the innermost open div is no box, or when the
\* box lies behind a separator.
C7_InnermostOpenBox ==
    (pc = "detected" /\ InWindow(result_lines, search_from_idx))
        => enclosing_box_div = InnermostOpenBox(result_lines, search_from_idx)

\* ---- C8

\* C8: determine_scale_class returns null for every metrics record with an
\* explicit scale class or an opt-out, whatever the height, the callout
\* count, the two-column flag and the table-in-callout flag are.
C8_OptOutNeverScaled ==
    (pc \in {"decided", "decided_given"} /\ (metrics.has_scale_class \/ metrics.no_autoscale))
        => scale_class = None

\* an opted-out record that every rule of the engine would scale
C8_OptedOutOverflow ==
    /\ pc = "decided_given"
    /\ metrics.no_autoscale /\ ~metrics.has_scale_class
    /\ metrics.table_in_callout /\ metrics.has_two_column
    /\ metrics.callout_count >= 3
    /\ metrics.estimated_height > 2 * SLIDE_HEIGHT_BUDGET
    /\ scale_class = None

\* ---- C9

\* the rules of the claim, in its order: <<the rule applies, the class>>
C9_Rules(m) ==
    <<<<m.table_in_callout, 78>>,
      <<m.has_two_column /\ m.callout_count >= 2
            /\ 10 * m.estimated_height > 9 * SLIDE_HEIGHT_BUDGET, 78>>,
      <<m.callout_count >= 3, 80>>,
      <<10 * m.estimated_height > 20 * SLIDE_HEIGHT_BUDGET, 50>>,
      <<10 * m.estimated_height > 17 * SLIDE_HEIGHT_BUDGET, 60>>,
      <<10 * m.estimated_height > 14 * SLIDE_HEIGHT_BUDGET, 70>>,
      <<10 * m.estimated_height > 12 * SLIDE_HEIGHT_BUDGET, 78>>,
      <<10 * m.estimated_height > 11 * SLIDE_HEIGHT_BUDGET, 80>>,
      <<10 * m.estimated_height > 10 * SLIDE_HEIGHT_BUDGET, 90>>>>

\* the class of the first rule that applies, null when none does
C9_FirstMatch(rules) ==
    LET hits == {r \in 1..Len(rules) : rules[r][1]}
    IN IF hits = {} THEN None ELSE rules[CHOOSE r \in hits : \A q \in hits : r <= q][2]

\* a slide of exactly three boxes with nothing in them
C9_ThreeCallouts ==
    content = <<Gen("box", 0, 0), Gen("close", 0, 0), Gen("box", 0, 0), Gen("close", 0, 0),
                Gen("box", 0, 0), Gen("close", 0, 0)>>

\* C9: without a scale class and an opt-out, determine_scale_class returns
\* the class of the first rule that matches, in the order table-in-callout,
\* two columns with two callouts above 0.9 of the budget, three callouts,
\* then the heights above 2.0, 1.7, 1.4, 1.2, 1.1 and 1.0 of the budget, and
\* null when none matches; a slide of 3 boxes has callout_count 3 and gets
\* scale-80.
C9_OrderedRules ==
    /\ (pc \in {"decided", "decided_given"}
            /\ ~metrics.has_scale_class /\ ~metrics.no_autoscale)
          => scale_class = C9_FirstMatch(C9_Rules(metrics))
    /\ (pc = "decided" /\ C9_ThreeCallouts)
          => metrics.callout_count = 3 /\ scale_class = 80

\* the slide of three boxes has been analysed and scaled
C9_ThreeCalloutsScaled ==
    /\ pc = "decided"
    /\ C9_ThreeCallouts
    /\ metrics.callout_count = 3
    /\ scale_class = 80

\* ---- C10

\* the slides of a document: the parts after the first split point
SlidesOf(ls) ==
    LET sps == Sorted(SplitPoints(ls, Len(ls) - 1))
    IN {SubSeq(ls, sps[r] + 1, IF r = Len(sps) THEN Len(ls) ELSE sps[r + 1] - 1) :
           r \in 1..Len(sps)}

ScaleTokens(slide) == Cardinality({j \in 1..Len(slide) : IsScaleLine(slide[j])})

\* this step is a call of inject_scale_class
SlideInjected == pc \in {"slide", "injected"} /\ pc' = "injected"

\* this step is a pass of analyze_and_warn_slides
PassDone == pc \in {"doc", "passed"} /\ pc' = "passed"

\* C10: inject_scale_class leaves a slide with a scale directive as it is;
\* a second pass of analyze_and_warn_slides over the output of a pass
\* changes nothing; a pass over slides with at most one scale token each
\* leaves at most one in each.
C10_InjectionIdempotent ==
    [][/\ (SlideInjected /\ ScaleTokens(content) > 0) => content' = content
       /\ (PassDone /\ passes >= 1) => content' = content
       /\ (PassDone /\ \A sl \in SlidesOf(content) : ScaleTokens(sl) <= 1)
             => \A sl \in SlidesOf(content') : ScaleTokens(sl) <= 1]_vars

\* ---- C11

\* the columns of the whole table that hold a cell longer than the threshold
LongColumnsOf(tl) == detect_long_columns(SubSeq(tl, 3, Len(tl)))

\* the table was split by the call whose result is in result_lines
TableWasSplit ==
    /\ pc = "split"
    /\ Len(table_lines_buffer) >= 2
    /\ Len(table_lines_buffer) - 2 > table_first_max

\* the chunk (0 for the first) that position j of a split table's output is in
ChunkOf(out, j) == Cardinality({q \in Idx(out, "table") : q <= j}) - 1

\* C11: in every chunk of a split table the cells of one and the same set of
\* columns are forced to the left: the columns that hold a long cell in any
\* data row of the whole table, whichever chunk that row is in; the other
\* cells keep the alignment of the separator row
C11_SameLongColumnsInEveryChunk ==
    TableWasSplit =>
        \A j \in Idx(result_lines, "td") :
            result_lines[j].m =
                IF result_lines[j].n \in LongColumnsOf(table_lines_buffer) THEN 2
                ELSE Alignment(table_lines_buffer[2], result_lines[j].n)

\* a table of three chunks whose only long cell is in the last row: the cell
\* of that column in the first chunk is on the left although the separator
\* row asks for the right
C11_LongCellInLastChunk ==
    /\ TableWasSplit
    /\ Cardinality(Idx(result_lines, "table")) = 3
    /\ table_lines_buffer[2].c = <<1, 2>>
    /\ detect_long_columns(SubSeq(table_lines_buffer, 3, 4)) = {}
    /\ LongColumnsOf(table_lines_buffer) = {0}
    /\ \E j \in Idx(result_lines, "td") :
          /\ ChunkOf(result_lines, j) = 0
          /\ result_lines[j].n = 0
          /\ result_lines[j].m = 2

\* ---- C12

\* the table that closes in this step has a header, a separator row and no
\* more data rows than the budget the step takes for it
TableWithinBudget ==
    /\ TableCloses
    /\ Len(table_lines_buffer) >= 2
    /\ Len(table_lines_buffer) - 2 <= table_first_max'

\* what this step appends to the output
Appended == SubSeq(result_lines', Len(result_lines) + 1, Len(result_lines'))

\* the step appends the buffered table lines as they were read and after
\* them at most the line that ended the table
TableKeptAsRead ==
    LET n == Len(table_lines_buffer)
    IN /\ Len(result_lines') >= Len(result_lines) + n
       /\ SubSeq(result_lines', 1, Len(result_lines) + n) = result_lines \o table_lines_buffer
       /\ Len(result_lines') <= Len(result_lines) + n + 1
       /\ Len(result_lines') = Len(result_lines) + n + 1
             => LineRead /\ result_lines'[Len(result_lines')] = lines'[Len(lines')]

\* C12: a table with no more data rows than its row budget is one table in
\* the output, namely its own lines as they were read: the step that closes
\* it writes no <table> element (so none of class "split-table
\* table-continuation"), no continuation marker and no slide separator, and
\* counts no split
C12_TableWithinBudgetKept ==
    [][TableWithinBudget =>
          /\ TableKeptAsRead
          /\ stats'.tables_split = stats.tables_split
          /\ stats'.slides_added = stats.slides_added]_vars

\* the claim as it is worded: the output of such a table is one <table>
\* element
C12_OneTableElement ==
    [][TableWithinBudget => Cardinality(Idx(Appended, "table")) = 1]_vars

\* a table of 4 data rows under the budget of 4, splitting enabled
C12_FourRowsUnderBudgetFour ==
    /\ ~args.no_split
    /\ ~in_table
    /\ stats.tables_found = 1
    /\ table_first_max = 4
    /\ Cardinality(Idx(result_lines, "tr")) = 4
    /\ Idx(result_lines, "table") = {}

\* ---- C13

C14_HeaderCellsCentred ==
    TableWasSplit => \A j \in Idx(result_lines, "th") : result_lines[j].m = 0

\* ---- C15

\* C15: the result of compute_available_code_lines is at least 8 and at most
\* floor(default_max * s), s the space factor of the slide's scale class
C15_BetweenFloorAndCeiling ==
    pc = "lines" =>
        /\ effective_max_lines >= 8
        /\ effective_max_lines
              <= (args.max_lines * ScaleFactor(metrics, scale_class)) \div 100

\* ---- C16

\* C16: with splitting enabled and no split directive pending, the step that
\* closes a code block of more than max_lines lines splits it
C16_LongerThanMaxLinesIsSplit ==
    [][(/\ CodeCloses
        /\ ~args.no_split
        /\ pending_split_directive = NoDirective
        /\ Len(code_lines_buffer) > args.max_lines)
          => stats'.code_blocks_split = stats.code_blocks_split + 1]_vars

\* ---- C17

\* this step splits the code block, or the table, that closes in it
CodeSplits == CodeCloses /\ stats'.code_blocks_split = stats.code_blocks_split + 1

TableSplits == TableCloses /\ stats'.tables_split = stats.tables_split + 1

\* the split decision of the driver, taken again for a block of len elements
SplitAgain(len, first_max) == len > first_max

\* every chunk is within its own budget, and no chunk would be split again
\* when the continuation budget does not exceed the first
ChunksWithinBudgets(sizes, first_max, cont_max_) ==
    /\ Len(sizes) >= 2
    /\ sizes[1] <= first_max
    /\ \A r \in 2..Len(sizes) : sizes[r] <= cont_max_
    /\ ~SplitAgain(sizes[1], first_max)
    /\ cont_max_ <= first_max => \A r \in 1..Len(sizes) : ~SplitAgain(sizes[r], first_max)

\* C17: the first chunk of a split code block or table has at most as many
\* elements as the first budget and every continuation chunk at most as many
\* as the continuation budget; taking the split decision again never splits
\* the first chunk, and splits no chunk at all when the continuation budget
\* is at most the first budget
C17_ChunksWithinTheirBudgets ==
    [][/\ CodeSplits => ChunksWithinBudgets(BlockSizes(CodeOutput),
                                           effective_max_lines', cont_max')
       /\ TableSplits => ChunksWithinBudgets(TableRowCounts(TableOutput),
                                             table_first_max', table_cont_max')]_vars

\* the claim as it is worded: the split decision, taken again with the same
\* budgets, splits no chunk
C17_NoChunkSplitAgain ==
    [][/\ CodeSplits =>
            \A r \in 1..Len(BlockSizes(CodeOutput)) :
                ~SplitAgain(BlockSizes(CodeOutput)[r], effective_max_lines')
       /\ TableSplits =>
            \A r \in 1..Len(TableRowCounts(TableOutput)) :
                ~SplitAgain(TableRowCounts(TableOutput)[r], table_first_max')]_vars

\* a code block of 7 lines split under the directive "split: 2, 3" into
\* chunks of 2, 3 and 2 lines
C17_ContinuationLongerThanFirst ==
    /\ stats.code_blocks_split = 1
    /\ ~in_code_block
    /\ effective_max_lines = 2 /\ cont_max = 3
    /\ BlockSizes(result_lines) = <<2, 3, 2>>

\* ---- C18

\* C18: under no_split nothing is counted as split and every slide separator
\* and continuation indicator of the output is a line of the input
C18_NoSplitSplitsNothing ==
    args.no_split =>
        /\ stats.code_blocks_split = 0
        /\ stats.tables_split = 0
        /\ stats.slides_added = 0
        /\ \A j \in Idx(result_lines, "sep") \cup Idx(result_lines, "ind") :
              /\ result_lines[j].src # 0
              /\ result_lines[j] = lines[result_lines[j].src]

\* the end of a pass under no_split over the directive "split: 2, 3" and a
\* code block of 25 lines: the directive gives the budget 2 and the output
\* has one block of 25 lines and the two separators of the frontmatter
C18_LongBlockKeptWhole ==
    /\ args.no_split
    /\ pc = "done"
    /\ stats.split_directives_found = 1
    /\ effective_max_lines = 2
    /\ BlockSizes(result_lines) = <<25>>
    /\ Cardinality(Idx(result_lines, "sep")) = 2

\* ---- C19

\* a line of the input that is no fence, no table line and no line of code
IsPlain(l) == ~IsFence(l) /\ ~IsTableLine(l) /\ l.k # "code" /\ l.k # "arrow"

\* the lines of out that are such lines of the input ls, as they were read
PassedThrough(out, ls) ==
    SelectSeq(out, LAMBDA x : x.src # 0 /\ x.src <= Len(ls) /\ x = ls[x.src] /\ IsPlain(x))

\* the line read in this step is a </div> that a box split asked to skip
Suppressed(l) ==
    /\ IsCloseDiv(l)
    /\ \/ skip_next_closing_div
       \/ TableSplits /\ HasBox(table_enclosing_box')

\* the line read in this step lies outside code blocks and tables, is not
\* suppressed and has no arrow shorthand
PlainRead ==
    /\ LineRead
    /\ ~in_code_block
    /\ IsPlain(lines'[Len(lines')])
    /\ ~Suppressed(lines'[Len(lines')])

\* C19: a line read outside code blocks and tables, not a suppressed </div>
\* and without arrow shorthand, becomes the last line of the output as it
\* was read, behind all such lines read before it; no other step adds,
\* removes, changes or reorders such lines in the output
C19_PlainLinesPassThrough ==
    [][/\ PlainRead =>
            /\ result_lines'[Len(result_lines')] = lines'[Len(lines')]
            /\ PassedThrough(result_lines', lines')
                  = Append(PassedThrough(result_lines, lines), lines'[Len(lines')])
       /\ ~PlainRead =>
            PassedThrough(result_lines', lines') = PassedThrough(result_lines, lines)]_vars

\* the end of a pass over a title, a code block that was split and a line
\* of text: the three lines of the frontmatter, the title and the text are
\* in the output as read, the text last
C19_TextAroundSplitBlock ==
    /\ pc = "done"
    /\ stats.code_blocks_split = 1
    /\ Len(PassedThrough(result_lines, lines)) = 5
    /\ PassedThrough(result_lines, lines)[4].k = "title"
    /\ result_lines[Len(result_lines)].k = "text"
    /\ result_lines[Len(result_lines)].src = Len(lines)

\* ---- C20

\* where the block that closes in this step began
BlockStart == IF CodeCloses THEN CodeBlockLine ELSE TableLine

\* the heading lines of the slide of line p that stand before p
HeadingsBefore(p) ==
    {t \in 1..(p - 1) : /\ IsTitle(lines[t])
                        /\ \A q \in t..(p - 1) : ~IsSep(lines[q])}

\* the title lines that this step generates
CarriedTitles ==
    LET out == IF CodeCloses THEN CodeOutput ELSE TableOutput
    IN {j \in Idx(out, "title") : out[j].src = 0}

\* C20: the title carried to the continuation slides of a split is the last
\* heading line that stands before the block on the block's own slide; when
\* there is none, no title is carried
C20_TitleOfTheBlocksSlide ==
    [][(CodeSplits \/ TableSplits) =>
          IF HeadingsBefore(BlockStart) = {}
          THEN CarriedTitles = {}
          ELSE /\ CarriedTitles # {}
               /\ current_title'.src = LastOf(HeadingsBefore(BlockStart))]_vars

\* ---- C21

\* the rows of the layout text that are not blank, without the blanks at
\* their ends
GridOf(layout_text) ==
    SelectSeq([r \in 1..Len(layout_text) |-> strip(layout_text[r])], LAMBDA row : row # <<>>)

\* the positions of grid g that carry label ch
CellsOf(g, ch) == {p \in (1..Len(g)) \X (1..Len(g[1])) : g[p[1]][p[2]] = ch}

\* the cells of label ch fill the rectangle that bounds them
FillsBounds(g, ch) ==
    \A r \in 1..Len(g), c \in 1..Len(g[1]) :
        (/\ \E p \in CellsOf(g, ch) : p[1] <= r
         /\ \E p \in CellsOf(g, ch) : p[1] >= r
         /\ \E p \in CellsOf(g, ch) : p[2] <= c
         /\ \E p \in CellsOf(g, ch) : p[2] >= c) => g[r][c] = ch

\* there is a row, the rows are equally long, every label fills its bounds
WellFormed(g) ==
    /\ g # <<>>
    /\ \A r \in 1..Len(g) : Len(g[r]) = Len(g[1])
    /\ \A r \in 1..Len(g), c \in 1..Len(g[1]) : g[r][c] # "." => FillsBounds(g, g[r][c])

\* what a parsed layout reports of grid g
ReportsGrid(layout, g) ==
    /\ layout.rows = Len(g)
    /\ layout.cols = Len(g[1])
    /\ layout.labels = {g[r][c] : r \in 1..Len(g), c \in 1..Len(g[1])} \ {"."}
    /\ \A ch \in layout.labels :
          /\ \A p \in CellsOf(g, ch) :
                /\ layout.areas[ch].row_start + 1 <= p[1] /\ p[1] <= layout.areas[ch].row_end + 1
                /\ layout.areas[ch].col_start + 1 <= p[2] /\ p[2] <= layout.areas[ch].col_end + 1
          /\ \E p \in CellsOf(g, ch) : p[1] = layout.areas[ch].row_start + 1
          /\ \E p \in CellsOf(g, ch) : p[1] = layout.areas[ch].row_end + 1
          /\ \E p \in CellsOf(g, ch) : p[2] = layout.areas[ch].col_start + 1
          /\ \E p \in CellsOf(g, ch) : p[2] = layout.areas[ch].col_end + 1

\* C21: parse_ascii_layout accepts a layout exactly when it has a non-blank
\* row, its non-blank rows are equally long and every label but "." fills
\* the rectangle that bounds it; an accepted layout reports the row and
\* column counts, the set of labels and the bounds of every label; every
\* other layout, the empty one too, is refused
C21_AcceptsRectangularGrids ==
    pc = "parsed" =>
        /\ metrics.ok <=> WellFormed(GridOf(content))
        /\ metrics.ok => ReportsGrid(metrics, GridOf(content))

\* "AABB\nAABB": 2 rows, 4 columns, labels A and B, rows 0..1 for both,
\* columns 0..1 for A and 2..3 for B
C21_TwoByFour ==
    /\ pc = "parsed"
    /\ content = <<<<"A", "A", "B", "B">>, <<"A", "A", "B", "B">>>>
    /\ metrics.ok
    /\ metrics.rows = 2 /\ metrics.cols = 4
    /\ metrics.labels = {"A", "B"}
    /\ metrics.areas["A"] = [row_start |-> 0, row_end |-> 1, col_start |-> 0, col_end |-> 1]
    /\ metrics.areas["B"] = [row_start |-> 0, row_end |-> 1, col_start |-> 2, col_end |-> 3]

\* ---- C22

\* the divs opened on the slide of line idx and open after it
OpenDivs(ls, idx) == {p \in (LastSepBefore(ls, idx) + 1)..idx : StillOpen(ls, p, idx)}

\* no div is opened and closed on one line
NoOneLineDiv(ls) == \A p \in 1..Len(ls) : ls[p].k \notin {"box1", "ind"}

\* C22: the box that is open at search_from_idx is found when its opening
\* line is one of the 30 lines before search_from_idx, and an opening line
\* further back is not looked at
C22_WindowOfThirtyLines ==
    (/\ pc = "detected"
     /\ NoOneLineDiv(result_lines)
     /\ OpenDivs(result_lines, search_from_idx) # {}
     /\ IsBoxDiv(result_lines[LastOf(OpenDivs(result_lines, search_from_idx))]))
        => LET p == LastOf(OpenDivs(result_lines, search_from_idx))
           IN IF search_from_idx - p + 1 <= BOX_WINDOW
              THEN enclosing_box_div = result_lines[p]
              ELSE enclosing_box_div = NoBox

\* ---- C23

\* this step reads a line of a code block that is not its closing fence
CodeLineRead == in_code_block /\ LineRead /\ ~IsFence(lines'[Len(lines')])

\* C23: a line read inside a code block, the closing fence apart, is
\* appended to the code buffer and nothing else of the driver changes: not
\* the slide start, the pending directive, the skip flag, the title, the
\* statistics, the output or the table state
C23_CodeLinesOnlyBuffered ==
    [][CodeLineRead =>
          /\ code_lines_buffer' = Append(code_lines_buffer, lines'[Len(lines')])
          /\ UNCHANGED <<result_lines, in_code_block, code_block_start_idx, current_title,
                         current_slide_start, pending_split_directive,
                         skip_next_closing_div, stats, table_state, code_locals,
                         table_locals>>]_vars

\* after a heading and the directive "split: 4", inside a code block whose
\* lines so far are "---", a heading, a split directive, "</div>" and a
\* table row: the title, the slide start and the pending directive are
\* those from before the block and no table has begun
C23_SpecialLinesBuffered ==
    /\ in_code_block
    /\ Len(code_lines_buffer) = 5
    /\ IsSep(code_lines_buffer[1])
    /\ IsTitle(code_lines_buffer[2])
    /\ IsSplitDirective(code_lines_buffer[3])
    /\ IsCloseDiv(code_lines_buffer[4])
    /\ IsTableLine(code_lines_buffer[5])
    /\ pending_split_directive = <<4, None>>
    /\ current_title.src = 4
    /\ current_slide_start = frontmatter_end_idx + 1
    /\ ~in_table
    /\ stats.split_directives_found = 1

\* C24: the chunking loop of the code splitter and of split_table finishes:
\* a loop that is entered ends with the chunks made, for every budget of a
\* split directive and every max_table_rows
C24_ChunkLoopsFinish == (pc = "loop") ~> (pc = "chunked")

\* ---- C25

\* line p of ls lies inside a fenced code block: an odd number of fence
\* lines precede it and it is not the fence that closes the block
InsideFence(ls, p) ==
    /\ ~IsFence(ls[p])
    /\ Cardinality({q \in 1..(p - 1) : IsFence(ls[q])}) % 2 = 1

\* where line p of the input stands in out as a numbered code line
NumberedAt(out, p) == {j \in 1..Len(out) : out[j].k = "num" /\ out[j].src = p}

\* C25: at the end of process_markdown every line of the input that lies
\* inside a fenced code block stands in the output exactly once as a
\* numbered code line.
C25_NoCodeLost ==
    pc = "done" =>
        \A p \in 1..Len(lines) :
            InsideFence(lines, p) => Cardinality(NumberedAt(result_lines, p)) = 1

\* ---- C26

\* the positions of ls outside fenced code blocks that hold a line of kind k
Outside(ls, kind) ==
    {p \in 1..Len(ls) :
        ls[p].k = kind /\ Cardinality({q \in 1..(p - 1) : IsFence(ls[q])}) % 2 = 0}

\* the end of the slide that begins after position a: the next separator
SlideEnd(seps, a, len) ==
    IF \E b \in seps : b > a
    THEN CHOOSE b \in seps : b > a /\ \A q \in seps : q > a => b <= q
    ELSE len + 1

\* on every slide as many positions of opens as of closes
SameCount(opens, closes, seps, len) ==
    \A a \in seps \cup {0} :
        Cardinality({p \in opens : a < p /\ p < SlideEnd(seps, a, len)})
           = Cardinality({p \in closes : a < p /\ p < SlideEnd(seps, a, len)})

\* every box of the input is closed on its slide and no </div> stands
\* before its box
InputBalanced(ls) ==
    LET opens == Outside(ls, "box")
        closes == Outside(ls, "close")
        seps == Outside(ls, "sep")
    IN /\ SameCount(opens, closes, seps, Len(ls))
       /\ \A a \in seps \cup {0}, p \in 1..Len(ls) :
             (a < p /\ p < SlideEnd(seps, a, Len(ls)))
                => Cardinality({q \in closes : a < q /\ q <= p})
                      <= Cardinality({q \in opens : a < q /\ q <= p})

\* C26: when every box of the input is closed on its own slide, every slide
\* of the output of process_markdown has as many box-opening div lines as
\* </div> lines.
C26_BoxBalancePreserved ==
    (pc = "done" /\ InputBalanced(lines))
        => SameCount(Idx(result_lines, "box"), Idx(result_lines, "close"),
                     Idx(result_lines, "sep"), Len(result_lines))

\* ---- C27

\* C27: at the end of process_markdown slides_added is the number of slide
\* separators of the output that the splits generated: the separators of
\* the output less the separators of the input outside code blocks.
C27_SlidesAddedCountsSeparators ==
    pc = "done" =>
        stats.slides_added
           = Cardinality(Idx(result_lines, "sep")) - Cardinality(Outside(lines, "sep"))

\* ---- C28

\* how many lines of ls lie inside fenced code blocks
FencedCount(ls) == Cardinality({p \in 1..Len(ls) : InsideFence(ls, p)})

\* C28: a pass of analyze_and_warn_slides inserts no scale directive inside
\* a fenced code block: the code blocks of the content hold as many lines
\* after the pass as before it.
C28_NoInjectionInsideFence ==
    [][pc' = "passed" => FencedCount(content') = FencedCount(content)]_vars

\* ---- C29

\* the <td> lines that data row r of the table has in out, in output order
CellsRendered(out, r) == SelectSeq(out, LAMBDA x : x.k = "td" /\ x.src = r)

\* C29: in the HTML of a split table every data row has one <td> per
\* pipe-delimited cell of its source row, empty cells included, the i-th
\* <td> in column i; and a column that detect_long_columns reports holds a
\* cell longer than the threshold at that position of some source row.
C29_CellsKeepTheirColumn ==
    TableWasSplit =>
        /\ \A r \in 3..Len(table_lines_buffer) :
              /\ Len(CellsRendered(result_lines, r)) = Len(table_lines_buffer[r].c)
              /\ \A q \in 1..Len(CellsRendered(result_lines, r)) :
                    CellsRendered(result_lines, r)[q].n = q - 1
        /\ \A col \in LongColumnsOf(table_lines_buffer) :
              \E r \in 3..Len(table_lines_buffer) :
                 /\ col + 1 <= Len(table_lines_buffer[r].c)
                 /\ table_lines_buffer[r].c[col + 1] > LONG_THRESHOLD

\* ---- C30

\* C30: for a metrics record without scale class and without opt-out the
\* class determine_scale_class returns has a space factor at least as large
\* as the class the height thresholds alone select for the estimated height.
C30_NeverWeakerThanHeightRule ==
    (pc \in {"decided", "decided_given"}
        /\ ~metrics.has_scale_class /\ ~metrics.no_autoscale)
        => SCALE_FACTORS(scale_class)
              >= SCALE_FACTORS(HeightScale(metrics.estimated_height))

====
